---- MODULE Spec2Model ----
(***************************************************************************)
(* A model of the Xtream-Codes compatibility layer of m3u-filter.          *)
(*                                                                         *)
(* Part 1, the Upstream Normalizer (src/processing/xtream_parser.rs):      *)
(* parse_xtream decodes a category payload and a stream payload, attaches  *)
(* every stream to the category of its category_id, synthesizes the item   *)
(* URL and emits one PlaylistGroup per entry of the category map, taking   *)
(* the group ids from a shared AtomicI32.                                  *)
(*                                                                         *)
(* Strings are TLA+ strings, so that format!() is concatenation and an     *)
(* integer is formatted with ToString.  A JSON value is a record           *)
(* [t, s, n]: t is the JSON type, s the text of a string, n the value of   *)
(* a number; a key that the JSON object does not have is Absent.           *)
(***************************************************************************)
EXTENDS Integers, Sequences, FiniteSets, TLC

\* ------------------------------------------------------------------------
\* Bounds of the model
\* ------------------------------------------------------------------------

\* The longest category payload (number of category records).
MaxCats == 2

\* The longest stream payload (number of stream records).
MaxStreams == 2

\* Numbers written as strings ("42") are parsed when they are in 0..MaxParse.
MaxParse == 50

\* ------------------------------------------------------------------------
\* serde_json::Value
\* ------------------------------------------------------------------------

JNull == [t |-> "null", s |-> "", n |-> 0]

JStr(s) == [t |-> "str", s |-> s, n |-> 0]

JNum(n) == [t |-> "num", s |-> "", n |-> n]

JBool(b) == [t |-> "bool", s |-> IF b THEN "true" ELSE "false", n |-> 0]

\* An array of strings, as backdrop_path carries it: s is its first element.
JArr(len, first) == [t |-> "arr", s |-> first, n |-> len]

\* The key is missing from the JSON object.
Absent == [t |-> "absent", s |-> "", n |-> 0]

\* Option<T>
None == [some |-> FALSE, s |-> "", n |-> 0]

SomeStr(s) == [some |-> TRUE, s |-> s, n |-> 0]

SomeNum(n) == [some |-> TRUE, s |-> "", n |-> n]

\* Value::to_string() of a value that is not a string: its JSON text.
value_to_string(v) ==
    CASE v.t = "num" -> ToString(v.n)
      [] v.t = "bool" -> v.s
      [] v.t = "null" -> "null"
      [] v.t = "arr" -> IF v.n = 0 THEN "[]" ELSE "[\"" \o v.s \o "\"]"
      [] OTHER -> "\"" \o v.s \o "\""

\* A string is taken as it is, any other value by its JSON text; a missing
\* key takes the field's serde default, the empty string.
deserialize_as_rc_string(v) ==
    IF v.t = "absent" THEN ""
    ELSE IF v.t = "str" THEN v.s
    ELSE value_to_string(v)

\* Strings and numbers give Some(text); everything else (and a missing key)
\* gives None.
deserialize_as_option_rc_string(v) ==
    CASE v.t = "str" -> SomeStr(v.s)
      [] v.t = "num" -> SomeStr(ToString(v.n))
      [] OTHER -> None

\* The decimal text of the numbers 0..MaxParse.
DecimalText == [k \in 0..MaxParse |-> ToString(k)]

\* serde_json::from_str::<T>(s): the number a decimal text denotes, None for
\* a text that is no number.
from_str_number(s) ==
    LET denoted == {k \in 0..MaxParse : DecimalText[k] = s}
    IN  IF denoted = {} THEN None ELSE SomeNum(CHOOSE k \in denoted : TRUE)

\* A number or null is taken as Option<T>; a string is parsed, and a string
\* that is no number gives None.  ok is FALSE for a value that matches no
\* variant of the untagged enum (a bool, an array, an object).
deserialize_number_from_string(v) ==
    CASE v.t = "num" -> [ok |-> TRUE, val |-> SomeNum(v.n)]
      [] v.t \in {"null", "absent"} -> [ok |-> TRUE, val |-> None]
      [] v.t = "str" -> [ok |-> TRUE, val |-> from_str_number(v.s)]
      [] OTHER -> [ok |-> FALSE, val |-> None]

\* Value::Array -> Some(strings), anything else -> None.
deserialize_as_string_array(v) ==
    IF v.t = "arr" THEN [some |-> TRUE, s |-> v.s, n |-> v.n] ELSE None

\* ------------------------------------------------------------------------
\* The upstream records
\* ------------------------------------------------------------------------

\* The value a JSON object o has under a key: a JSON object is a record of
\* the keys it has.
Get(o, key) == IF key \in DOMAIN o THEN o[key] ELSE Absent

\* struct XtreamStream, decoded from one JSON object; ok is FALSE when a
\* numeric field holds a value serde cannot take.
XtreamStream(o) ==
    LET stream_id == deserialize_number_from_string(Get(o, "stream_id"))
        series_id == deserialize_number_from_string(Get(o, "series_id"))
        rating == deserialize_number_from_string(Get(o, "rating"))
        rating_5based == deserialize_number_from_string(Get(o, "rating_5based"))
        tv_archive == deserialize_number_from_string(Get(o, "tv_archive"))
        tv_archive_duration == deserialize_number_from_string(Get(o, "tv_archive_duration"))
    IN  [ok |-> /\ stream_id.ok
                /\ series_id.ok
                /\ rating.ok
                /\ rating_5based.ok
                /\ tv_archive.ok
                /\ tv_archive_duration.ok,
         name |-> deserialize_as_rc_string(Get(o, "name")),
         category_id |-> deserialize_as_rc_string(Get(o, "category_id")),
         stream_id |-> stream_id.val,
         series_id |-> series_id.val,
         stream_icon |-> deserialize_as_rc_string(Get(o, "stream_icon")),
         direct_source |-> deserialize_as_rc_string(Get(o, "direct_source")),
         backdrop_path |-> deserialize_as_string_array(Get(o, "backdrop_path")),
         added |-> deserialize_as_option_rc_string(Get(o, "added")),
         cast |-> deserialize_as_option_rc_string(Get(o, "cast")),
         container_extension |-> deserialize_as_option_rc_string(Get(o, "container_extension")),
         cover |-> deserialize_as_option_rc_string(Get(o, "cover")),
         director |-> deserialize_as_option_rc_string(Get(o, "director")),
         episode_run_time |-> deserialize_as_option_rc_string(Get(o, "episode_run_time")),
         genre |-> deserialize_as_option_rc_string(Get(o, "genre")),
         last_modified |-> deserialize_as_option_rc_string(Get(o, "last_modified")),
         plot |-> deserialize_as_option_rc_string(Get(o, "plot")),
         rating |-> rating.val,
         rating_5based |-> rating_5based.val,
         release_date |-> deserialize_as_option_rc_string(Get(o, "release_date")),
         stream_type |-> deserialize_as_option_rc_string(Get(o, "stream_type")),
         title |-> deserialize_as_option_rc_string(Get(o, "title")),
         year |-> deserialize_as_option_rc_string(Get(o, "year")),
         youtube_trailer |-> deserialize_as_option_rc_string(Get(o, "youtube_trailer")),
         epg_channel_id |-> deserialize_as_option_rc_string(Get(o, "epg_channel_id")),
         tv_archive |-> tv_archive.val,
         tv_archive_duration |-> tv_archive_duration.val]

\* struct XtreamCategory, decoded from one JSON object: category_id and
\* category_name have no serde default, so a missing key fails the decode;
\* channels starts as the empty list.
XtreamCategory(o) ==
    [ok |-> "category_id" \in DOMAIN o /\ "category_name" \in DOMAIN o,
     category_id |-> deserialize_as_rc_string(Get(o, "category_id")),
     category_name |-> deserialize_as_rc_string(Get(o, "category_name")),
     channels |-> <<>>]

\* XtreamCategory::add with the item put in front of the list.
XtreamCategory_add_front(cat, item) ==
    [cat EXCEPT !.channels = <<item>> \o @]

\* XtreamCategory::add
XtreamCategory_add(cat, item) ==
    [cat EXCEPT !.channels = Append(@, item)]

\* add_str_property_if_exists that pushes a pair with null for a field
\* that is None.
add_str_property_if_exists_or_null(prop, prop_name) ==
    << <<prop_name, IF prop.some THEN JStr(prop.s) ELSE JNull>> >>

add_str_property_if_exists(prop, prop_name) ==
    IF prop.some THEN << <<prop_name, JStr(prop.s)>> >> ELSE <<>>

add_i64_property_if_exists(prop, prop_name) ==
    IF prop.some THEN << <<prop_name, JNum(prop.n)>> >> ELSE <<>>

add_f64_property_if_exists(prop, prop_name) ==
    IF prop.some THEN << <<prop_name, JNum(prop.n)>> >> ELSE <<>>

\* get_stream_id with the series_id preferred to the stream_id.
get_stream_id_series_first(stream) ==
    IF stream.series_id.some THEN ToString(stream.series_id.n)
    ELSE IF stream.stream_id.some THEN ToString(stream.stream_id.n)
    ELSE ""

\* XtreamStream::get_stream_id
get_stream_id(stream) ==
    IF stream.stream_id.some THEN ToString(stream.stream_id.n)
    ELSE IF stream.series_id.some THEN ToString(stream.series_id.n)
    ELSE ""

\* XtreamStream::get_additional_properties: Option<Vec<(String, Value)>>,
\* here [some, v].
get_additional_properties(stream) ==
    LET bd == IF stream.backdrop_path.some /\ stream.backdrop_path.n > 0
              THEN << <<"backdrop_path", JArr(1, stream.backdrop_path.s)>> >>
              ELSE <<>>
        result ==
            bd
            \o add_str_property_if_exists(stream.added, "added")
            \o add_str_property_if_exists(stream.cast, "cast")
            \o add_str_property_if_exists(stream.container_extension, "container_extension")
            \o add_str_property_if_exists(stream.cover, "cover")
            \o add_str_property_if_exists(stream.director, "director")
            \o add_str_property_if_exists(stream.episode_run_time, "episode_run_time")
            \o add_str_property_if_exists(stream.genre, "genre")
            \o add_str_property_if_exists(stream.last_modified, "last_modified")
            \o add_str_property_if_exists(stream.plot, "plot")
            \o add_f64_property_if_exists(stream.rating, "rating")
            \o add_f64_property_if_exists(stream.rating_5based, "rating_5based")
            \o add_str_property_if_exists(stream.release_date, "release_date")
            \o add_str_property_if_exists(stream.stream_type, "stream_type")
            \o add_str_property_if_exists(stream.title, "title")
            \o add_str_property_if_exists(stream.year, "year")
            \o add_str_property_if_exists(stream.youtube_trailer, "youtube_trailer")
            \o add_i64_property_if_exists(stream.tv_archive, "tv_archive")
            \o add_i64_property_if_exists(stream.tv_archive_duration, "tv_archive_duration")
    IN  IF result = <<>> THEN [some |-> FALSE, v |-> <<>>]
        ELSE [some |-> TRUE, v |-> result]

\* ------------------------------------------------------------------------
\* parse_xtream
\* ------------------------------------------------------------------------

\* enum XtreamCluster
XtreamCluster == {"Live", "Video", "Series"}

\* A payload is a JSON array of objects, [t |-> "arr", a |-> objects], or a
\* JSON value that is no array.
JArray(objects) == [t |-> "arr", a |-> objects]

NotAnArray == [t |-> "null", a |-> <<>>]

\* Result<_, M3uFilterError>
Ok(val) == [tag |-> "Ok", val |-> val, kind |-> "", message |-> ""]

Err(kind, message) == [tag |-> "Err", val |-> <<>>, kind |-> kind, message |-> message]

\* The JSON objects of the model's payloads.

\* The category objects a payload is made of: two of them have one id, and
\* one has a number for its id.
CategoryObjects ==
    { [category_id |-> JStr("1"), category_name |-> JStr("News")],
      [category_id |-> JNum(2), category_name |-> JStr("Film")],
      [category_id |-> JStr("1"), category_name |-> JStr("Sport")] }

\* The stream objects a payload is made of.  a has a stream_id only, b a
\* series_id only, c neither (its stream_id is no number) and a direct
\* source, e both ids.  Of the optional fields a has none but the EPG
\* channel id, b has three with a value, c has an empty plot and a null
\* cast, e has an empty backdrop_path and a rating that is no number.
StreamObjects ==
    { [name |-> JStr("a"), category_id |-> JStr("1"), stream_id |-> JNum(42),
       stream_icon |-> JStr("a.png"), epg_channel_id |-> JStr("a.tv")],
      [name |-> JStr("b"), category_id |-> JNum(1), series_id |-> JNum(7),
       container_extension |-> JStr("mkv"), rating |-> JStr("8"),
       backdrop_path |-> JArr(2, "b.jpg")],
      [name |-> JStr("c"), category_id |-> JStr("2"), stream_id |-> JStr("n/a"),
       direct_source |-> JStr("http://cdn.example/c"), plot |-> JStr(""),
       cast |-> JNull],
      [name |-> JStr("e"), category_id |-> JStr("2"), stream_id |-> JStr("6"),
       series_id |-> JNum(7), direct_source |-> JStr(""), tv_archive |-> JNum(1),
       backdrop_path |-> JArr(0, ""), rating |-> JStr("n/a")] }

\* A category object serde cannot decode: it has no category_name.
MalformedCategoryObject == [category_id |-> JStr("2")]

\* A stream object serde cannot decode: its stream_id is a bool, which no
\* variant of MaybeNumber takes.
MalformedStreamObject ==
    [name |-> JStr("x"), category_id |-> JStr("1"), stream_id |-> JBool(TRUE)]

\* serde decodes every object of an array on its own: the records decoded
\* from the objects above.
decoded_category ==
    [o \in CategoryObjects \cup {MalformedCategoryObject} |-> XtreamCategory(o)]

decoded_stream ==
    [o \in StreamObjects \cup {MalformedStreamObject} |-> XtreamStream(o)]

\* The records decoded from the first k objects of a payload's array.
RECURSIVE from_value_categories(_, _)
from_value_categories(a, k) ==
    IF k = 0 THEN <<>>
    ELSE Append(from_value_categories(a, k - 1), decoded_category[a[k]])

RECURSIVE from_value_streams(_, _)
from_value_streams(a, k) ==
    IF k = 0 THEN <<>>
    ELSE Append(from_value_streams(a, k - 1), decoded_stream[a[k]])

\* process_category: serde_json::from_value::<Vec<XtreamCategory>>
process_category(category) ==
    LET list == from_value_categories(category.a, Len(category.a))
    IN  IF category.t = "arr" /\ \A i \in DOMAIN list : list[i].ok
        THEN Ok(list)
        ELSE Err("Notify", "Failed to process categories")

\* process_streams that skips the objects serde cannot decode.
process_streams_lenient(xtream_cluster, streams) ==
    LET list == from_value_streams(streams.a, Len(streams.a))
    IN  IF streams.t = "arr"
        THEN Ok(SelectSeq(list, LAMBDA stream : stream.ok))
        ELSE Err("Notify", "Failed to process streams " \o xtream_cluster)

\* process_streams: serde_json::from_value::<Vec<XtreamStream>>
process_streams(xtream_cluster, streams) ==
    LET list == from_value_streams(streams.a, Len(streams.a))
    IN  IF streams.t = "arr" /\ \A i \in DOMAIN list : list[i].ok
        THEN Ok(list)
        ELSE Err("Notify", "Failed to process streams " \o xtream_cluster)

\* The URL synthesized for a stream that has no direct source
\* (lines 280-289).
synthesized_url(xtream_cluster, url, username, password, stream) ==
    CASE xtream_cluster = "Live" ->
            url \o "/live/" \o username \o "/" \o password \o "/"
                \o get_stream_id(stream) \o ".ts"
      [] xtream_cluster = "Video" ->
            LET ext == IF stream.container_extension.some
                       THEN stream.container_extension.s ELSE "mp4"
            IN  url \o "/live/" \o username \o "/" \o password \o "/"
                    \o get_stream_id(stream) \o "." \o ext
      [] xtream_cluster = "Series" ->
            url \o "/player_api.php?username=" \o username
                \o "&password=" \o password
                \o "&action=get_series_info&series_id="
                \o get_stream_id(stream)

\* stream_url with the user and the password in each other's place.
stream_url_swapped(xtream_cluster, url, username, password, stream) ==
    IF stream.direct_source = ""
    THEN synthesized_url(xtream_cluster, url, password, username, stream)
    ELSE stream.direct_source

\* stream_url with the series deep link built from the record's series_id
\* field instead of the resolved id.
stream_url_series_field(xtream_cluster, url, username, password, stream) ==
    IF stream.direct_source = ""
    THEN IF xtream_cluster = "Series"
         THEN url \o "/player_api.php?username=" \o username
                  \o "&password=" \o password
                  \o "&action=get_series_info&series_id="
                  \o (IF stream.series_id.some
                      THEN ToString(stream.series_id.n) ELSE "")
         ELSE synthesized_url(xtream_cluster, url, username, password, stream)
    ELSE stream.direct_source

\* stream_url with the direct source ignored.
stream_url_synthesized(xtream_cluster, url, username, password, stream) ==
    synthesized_url(xtream_cluster, url, username, password, stream)

\* The url field of the item header (lines 279-293): the direct source when
\* the record has one, the synthesized URL otherwise.
stream_url(xtream_cluster, url, username, password, stream) ==
    IF stream.direct_source = ""
    THEN synthesized_url(xtream_cluster, url, username, password, stream)
    ELSE stream.direct_source

\* PlaylistItem with the cluster tag of the live cluster on every item.
PlaylistItem_live(xtream_cluster, url, username, password, stream, title) ==
    [id |-> get_stream_id(stream),
     name |-> stream.name,
     logo |-> stream.stream_icon,
     logo_small |-> "",
     group |-> title,
     title |-> stream.name,
     parent_code |-> "",
     audio_track |-> "",
     time_shift |-> "",
     rec |-> "",
     source |-> "",
     url |-> stream_url(xtream_cluster, url, username, password, stream),
     epg_channel_id |-> stream.epg_channel_id,
     xtream_cluster |-> "Live",
     additional_properties |-> get_additional_properties(stream)]

\* The PlaylistItem built for a stream of the category titled title
\* (lines 265-298); its header's fields.
PlaylistItem(xtream_cluster, url, username, password, stream, title) ==
    [id |-> get_stream_id(stream),
     name |-> stream.name,
     logo |-> stream.stream_icon,
     logo_small |-> "",
     group |-> title,
     title |-> stream.name,
     parent_code |-> "",
     audio_track |-> "",
     time_shift |-> "",
     rec |-> "",
     source |-> "",
     url |-> stream_url(xtream_cluster, url, username, password, stream),
     epg_channel_id |-> stream.epg_channel_id,
     xtream_cluster |-> xtream_cluster,
     additional_properties |-> get_additional_properties(stream)]

\* The HashMap collected from the drained categories (lines 256-259): one
\* entry per category_id; of two records with one id the later one stays.
group_map(categories) ==
    [id \in {categories[i].category_id : i \in DOMAIN categories} |->
        LET last == CHOOSE i \in DOMAIN categories :
                        /\ categories[i].category_id = id
                        /\ \A j \in DOMAIN categories :
                               categories[j].category_id = id => j <= i
        IN  categories[last]]

\* add_stream with a stream of no category kept in some group instead of
\* being dropped.
add_stream_kept(groups, xtream_cluster, url, username, password, stream) ==
    IF DOMAIN groups = {} THEN groups
    ELSE LET key == IF stream.category_id \in DOMAIN groups
                    THEN stream.category_id
                    ELSE CHOOSE k \in DOMAIN groups : TRUE
             grp == groups[key]
             item == PlaylistItem(xtream_cluster, url, username, password,
                                  stream, grp.category_name)
         IN  [groups EXCEPT ![key] = XtreamCategory_add(grp, item)]

\* One turn of the loop over the streams (lines 262-300): the stream is
\* added to the category of its category_id, and dropped if there is none.
add_stream(groups, xtream_cluster, url, username, password, stream) ==
    IF stream.category_id \in DOMAIN groups
    THEN LET grp == groups[stream.category_id]
             item == PlaylistItem(xtream_cluster, url, username, password,
                                  stream, grp.category_name)
         IN  [groups EXCEPT ![stream.category_id] = XtreamCategory_add(grp, item)]
    ELSE groups

\* The loop over the streams, from the k-th on (line 261).
RECURSIVE for_streams(_, _, _, _, _, _, _)
for_streams(groups, xtream_cluster, url, username, password, streams, k) ==
    IF k > Len(streams) THEN groups
    ELSE for_streams(
             add_stream(groups, xtream_cluster, url, username, password, streams[k]),
             xtream_cluster, url, username, password, streams, k + 1)

\* The orders in which group_map.values() may visit the map: a HashMap
\* iterates in an order of its own, which differs from map to map.
iteration_orders(groups) ==
    {o \in [1..Cardinality(DOMAIN groups) -> DOMAIN groups] :
        \A i, j \in DOMAIN o : i # j => o[i] # o[j]}

\* AtomicI32::fetch_add(1): the value the counter holds afterwards.  The
\* counters of the model stay far below i32::MAX, where fetch_add wraps.
fetch_add(cnt) == cnt + 1

\* The counter after j increments.
RECURSIVE counter_after(_, _)
counter_after(cat_id_cnt, j) ==
    IF j = 0 THEN cat_id_cnt ELSE fetch_add(counter_after(cat_id_cnt, j - 1))

\* emit_groups with the group id read before the counter is incremented.
emit_groups_load_first(groups, order, cat_id_cnt, xtream_cluster) ==
    [j \in DOMAIN order |->
        [id |-> counter_after(cat_id_cnt, j - 1),
         xtream_cluster |-> xtream_cluster,
         title |-> groups[order[j]].category_name,
         channels |-> groups[order[j]].channels]]

\* emit_groups with the entry visited first left out.
emit_groups_skip_first(groups, order, cat_id_cnt, xtream_cluster) ==
    [j \in 1..(Len(order) - 1) |->
        [id |-> counter_after(cat_id_cnt, j),
         xtream_cluster |-> xtream_cluster,
         title |-> groups[order[j + 1]].category_name,
         channels |-> groups[order[j + 1]].channels]]

\* emit_groups with the categories that received no item left out.
emit_groups_nonempty(groups, order, cat_id_cnt, xtream_cluster) ==
    LET kept == SelectSeq(order, LAMBDA k : groups[k].channels # <<>>)
    IN  [j \in DOMAIN kept |->
            [id |-> counter_after(cat_id_cnt, j),
             xtream_cluster |-> xtream_cluster,
             title |-> groups[kept[j]].category_name,
             channels |-> groups[kept[j]].channels]]

\* The groups emitted when the map is visited in the given order by a pass
\* that runs alone (lines 303-312): the j-th group visited is given the
\* value the counter holds after its own increment.
emit_groups(groups, order, cat_id_cnt, xtream_cluster) ==
    [j \in DOMAIN order |->
        [id |-> counter_after(cat_id_cnt, j),
         xtream_cluster |-> xtream_cluster,
         title |-> groups[order[j]].category_name,
         channels |-> groups[order[j]].channels]]

\* parse_xtream, with the order in which the map is visited: the Result,
\* and the value the counter is left with.
parse_xtream(cat_id_cnt, xtream_cluster, category, url, username, password, streams, order) ==
    LET categories == process_category(category)
        stream_list == process_streams(xtream_cluster, streams)
    IN  IF categories.tag = "Err"
        THEN [result |-> categories, cat_id_cnt |-> cat_id_cnt]
        ELSE IF stream_list.tag = "Err"
        THEN [result |-> stream_list, cat_id_cnt |-> cat_id_cnt]
        ELSE LET groups == for_streams(group_map(categories.val), xtream_cluster,
                                       url, username, password, stream_list.val, 1)
             IN  [result |-> Ok(emit_groups(groups, order, cat_id_cnt, xtream_cluster)),
                  cat_id_cnt |-> counter_after(cat_id_cnt, Len(order))]

\* The orders parse_xtream may visit its map in, for the given payloads.
visit_orders(category, xtream_cluster, streams) ==
    IF process_category(category).tag = "Err"
       \/ process_streams(xtream_cluster, streams).tag = "Err"
    THEN {<<>>}
    ELSE iteration_orders(group_map(process_category(category).val))

\* ------------------------------------------------------------------------
\* The payloads parse_xtream is given
\* ------------------------------------------------------------------------

SeqsUpTo(S, n) == UNION {[1..k -> S] : k \in 0..n}

\* The category payloads: a value that is no array, the arrays of objects
\* that decode, and these arrays followed by an object that does not.
CategoryPayloads ==
    {NotAnArray}
    \cup {JArray(a) : a \in SeqsUpTo(CategoryObjects, MaxCats)}
    \cup {JArray(Append(a, MalformedCategoryObject)) :
             a \in SeqsUpTo(CategoryObjects, MaxCats - 1)}

\* The stream payloads, likewise.
StreamPayloads ==
    {NotAnArray}
    \cup {JArray(a) : a \in SeqsUpTo(StreamObjects, MaxStreams)}
    \cup {JArray(Append(a, MalformedStreamObject)) :
             a \in SeqsUpTo(StreamObjects, MaxStreams - 1)}

\* The values the caller's counter may hold when the first pass starts: a
\* new counter, and one that earlier passes have advanced.
CounterStarts == {0, 3}

\* No call of parse_xtream has returned yet.
NotRun == [tag |-> "NotRun", val |-> <<>>, kind |-> "", message |-> ""]

\* ------------------------------------------------------------------------
\* The server's configuration
\* ------------------------------------------------------------------------

\* The query parameters action, series_id and vod_id are sequences of pieces
\* of text, each a blank " " or a word without blanks; "" is the empty
\* sequence.

\* str::trim: the text without its leading and trailing blanks.
RECURSIVE trim_start(_)
trim_start(s) == IF s # <<>> /\ Head(s) = " " THEN trim_start(Tail(s)) ELSE s

RECURSIVE trim_end(_)
trim_end(s) ==
    IF s # <<>> /\ s[Len(s)] = " " THEN trim_end(SubSeq(s, 1, Len(s) - 1)) ELSE s

trim(s) == trim_end(trim_start(s))

\* str::is_empty
is_empty(s) == s = <<>>

\* FromStr::from_str for the integer a stream id is: one word that is a
\* decimal number.
from_str(s) ==
    IF Len(s) = 1 /\ from_str_number(s[1]).some
    THEN [ok |-> TRUE, val |-> from_str_number(s[1]).n]
    ELSE [ok |-> FALSE, val |-> 0]

\* enum TargetType
TargetType == {"M3u", "Xtream"}

\* enum InputType
InputType == {"M3u", "Xtream"}

\* ConfigTarget::has_output that is content with any output format.
has_output_any(target, tt) == target.output # <<>>

\* ConfigTarget::has_output: some output format of the target is tt.
has_output(target, tt) == \E i \in DOMAIN target.output : target.output[i] = tt

\* u8::to_ascii_lowercase over the names of the model.
to_ascii_lowercase ==
    [n \in {"tv", "TV", "radio", "films", "attic", "gone", "default", "Default"} |->
        CASE n = "TV" -> "tv"
          [] n = "Default" -> "default"
          [] OTHER -> n]

\* str::eq_ignore_ascii_case
eq_ignore_ascii_case(a, b) == to_ascii_lowercase[a] = to_ascii_lowercase[b]

\* The first of the elements a loop finds, as an Option: the loops of the
\* configuration return at the first element that passes their test.
first_match(hits) ==
    IF hits = <<>> THEN [some |-> FALSE, v |-> <<>>] ELSE [some |-> TRUE, v |-> hits[1]]

\* The targets of all sources, in configuration order.
RECURSIVE targets_up_to(_, _)
targets_up_to(sources, k) ==
    IF k = 0 THEN <<>> ELSE targets_up_to(sources, k - 1) \o sources[k].targets

\* Config::_get_target_for_user: the first target, over all sources, whose
\* name is the user's target name but for ASCII case.
get_target_for_user_named(cfg, user_target) ==
    IF ~user_target.some THEN [some |-> FALSE, v |-> <<>>]
    ELSE LET found == first_match(SelectSeq(targets_up_to(cfg.sources, Len(cfg.sources)),
                           LAMBDA target : eq_ignore_ascii_case(user_target.v.target, target.name)))
         IN  IF found.some
             THEN [some |-> TRUE, v |-> [user |-> user_target.v.user, target |-> found.v]]
             ELSE [some |-> FALSE, v |-> <<>>]

\* ApiProxyConfig::get_target_name: the credentials and the target name of
\* the user with this username and password.
get_target_name(api_proxy, username, password) ==
    LET found == first_match(SelectSeq(api_proxy.user,
                      LAMBDA u : u.username = username /\ u.password = password))
    IN  IF found.some
        THEN [some |-> TRUE,
              v |-> [user |-> [username |-> found.v.username, password |-> found.v.password,
                               token |-> found.v.token],
                     target |-> found.v.target]]
        ELSE [some |-> FALSE, v |-> <<>>]

\* ApiProxyConfig::get_target_name_by_token
get_target_name_by_token(api_proxy, token) ==
    LET found == first_match(SelectSeq(api_proxy.user, LAMBDA u : u.token # "" /\ u.token = token))
    IN  IF found.some
        THEN [some |-> TRUE,
              v |-> [user |-> [username |-> found.v.username, password |-> found.v.password,
                               token |-> found.v.token],
                     target |-> found.v.target]]
        ELSE [some |-> FALSE, v |-> <<>>]

\* Config::get_target_for_user
get_target_for_user(cfg, username, password) ==
    IF cfg.api_proxy.some
    THEN get_target_for_user_named(cfg, get_target_name(cfg.api_proxy.v, username, password))
    ELSE [some |-> FALSE, v |-> <<>>]

\* Config::get_target_for_user_by_token
get_target_for_user_by_token(cfg, token) ==
    IF cfg.api_proxy.some
    THEN get_target_for_user_named(cfg, get_target_name_by_token(cfg.api_proxy.v, token))
    ELSE [some |-> FALSE, v |-> <<>>]

\* get_user_target_by_credentials: the user and target a username and
\* password resolve to, or else the request's token.
get_user_target_by_credentials(username, password, req, cfg) ==
    IF username # "" /\ password # ""
    THEN get_target_for_user(cfg, username, password)
    ELSE get_target_for_user_by_token(cfg, req.token)

\* get_user_target: the user and target the request's credentials resolve to.
get_user_target(req, cfg) ==
    get_user_target_by_credentials(req.username, req.password, req, cfg)

\* ConfigSource::get_input_for_target: the source's first input of the
\* type, when the source has a target of that name.
ConfigSource_get_input_for_target(source, target_name, input_type) ==
    IF \E i \in DOMAIN source.targets : source.targets[i].name = target_name
    THEN first_match(SelectSeq(source.inputs, LAMBDA input : input.input_type = input_type))
    ELSE [some |-> FALSE, v |-> <<>>]

\* Config::get_input_for_target: the first source's answer that is Some.
RECURSIVE get_input_for_target_from(_, _, _, _)
get_input_for_target_from(cfg, target_name, input_type, k) ==
    IF k > Len(cfg.sources) THEN [some |-> FALSE, v |-> <<>>]
    ELSE LET found == ConfigSource_get_input_for_target(cfg.sources[k], target_name, input_type)
         IN  IF found.some THEN found
             ELSE get_input_for_target_from(cfg, target_name, input_type, k + 1)

get_input_for_target(cfg, target_name, input_type) ==
    get_input_for_target_from(cfg, target_name, input_type, 1)

\* Config::get_xtream_input_for_target
get_xtream_input_for_target(cfg, target_name) ==
    get_input_for_target(cfg, target_name, "Xtream")

\* ------------------------------------------------------------------------
\* The repository
\* ------------------------------------------------------------------------

\* The collections of a target: COL_CAT_LIVE, COL_CAT_VOD, COL_CAT_SERIES,
\* COL_LIVE, COL_VOD, COL_SERIES.
Collections == <<"cat_live", "cat_vod", "cat_series", "live", "vod", "series">>

\* What the repository may hold for a collection: a file, a payload in
\* memory, neither, or nothing it can read.
Holdings == <<"file", "inline", "neither", "error">>

\* std::io::Result
IoOk(val) == [tag |-> "Ok", val |-> val]

IoErr == [tag |-> "Err", val |-> <<>>]

\* xtream_get_all: (Option<PathBuf>, Option<String>) for the collection of
\* the target, or an error.
xtream_get_all(repo, target_name, collection) ==
    IF target_name \notin DOMAIN repo.all THEN IoErr
    ELSE LET held == repo.all[target_name][collection]
         IN  CASE held = "file" ->
                    IoOk([path |-> SomeStr(target_name \o "/" \o collection \o ".json"),
                          content |-> None])
               [] held = "inline" ->
                    IoOk([path |-> None,
                          content |-> SomeStr("[" \o target_name \o ":" \o collection \o "]")])
               [] held = "neither" -> IoOk([path |-> None, content |-> None])
               [] OTHER -> IoErr

\* xtream_get_series_info: the cached detail of a series of the target.
xtream_get_series_info(repo, target_name, series_id) ==
    IF target_name \in DOMAIN repo.series_info /\ series_id \in repo.series_info[target_name]
    THEN IoOk("{series:" \o target_name \o ":" \o ToString(series_id) \o "}")
    ELSE IoErr

\* xtream_get_vod_info: the cached detail of a video of the target.
xtream_get_vod_info(repo, target_name, vod_id) ==
    IF target_name \in DOMAIN repo.vod_info /\ vod_id \in repo.vod_info[target_name]
    THEN IoOk("{vod:" \o target_name \o ":" \o ToString(vod_id) \o "}")
    ELSE IoErr

\* HttpResponse: status, content type, and body.
HttpResponse(status, content_type, body) ==
    [status |-> status, content_type |-> content_type, body |-> body]

\* An HttpResponse without body.
Finish(status) == HttpResponse(status, "", [kind |-> "empty"])

\* serve_file: the file streamed from disk.
serve_file(file_path) == HttpResponse(200, "", [kind |-> "file", path |-> file_path])

\* ------------------------------------------------------------------------
\* The Player API handler
\* ------------------------------------------------------------------------

\* chrono::Duration::days, in seconds.
Duration_days(d) == d * 86400

\* get_user_info that gives the user name for the password.
get_user_info_name_twice(user, cfg, now) ==
    LET srv == cfg.api_proxy.v.server
    IN  [user_info |->
            [active_cons |-> "0",
             allowed_output_formats |-> <<"ts">>,
             auth |-> 1,
             created_at |-> now - Duration_days(365),
             exp_date |-> now + Duration_days(365),
             is_trial |-> "0",
             max_connections |-> "1",
             message |-> srv.message,
             password |-> user.username,
             username |-> user.username,
             status |-> "Active"],
         server_info |->
            [url |-> srv.ip,
             port |-> srv.http_port,
             https_port |-> srv.https_port,
             server_protocol |-> srv.protocol,
             rtmp_port |-> srv.rtmp_port,
             timezone |-> srv.timezone,
             timestamp_now |-> now,
             time_now |-> [format |-> "%Y-%m-%d %H:%M:%S", of |-> now]]]

\* get_user_info: the authorization payload for a user, at time now.
get_user_info(user, cfg, now) ==
    LET srv == cfg.api_proxy.v.server
    IN  [user_info |->
            [active_cons |-> "0",
             allowed_output_formats |-> <<"ts">>,
             auth |-> 1,
             created_at |-> now - Duration_days(365),
             exp_date |-> now + Duration_days(365),
             is_trial |-> "0",
             max_connections |-> "1",
             message |-> srv.message,
             password |-> user.password,
             username |-> user.username,
             status |-> "Active"],
         server_info |->
            [url |-> srv.ip,
             port |-> srv.http_port,
             https_port |-> srv.https_port,
             server_protocol |-> srv.protocol,
             rtmp_port |-> srv.rtmp_port,
             timezone |-> srv.timezone,
             timestamp_now |-> now,
             time_now |-> [format |-> "%Y-%m-%d %H:%M:%S", of |-> now]]]

\* What a handler gives: its response and the repository lookups it made.
Handled(resp, looked) == [response |-> resp, lookups |-> looked]

\* A lookup of the repository.
Lookup(fn, target_name, key) == [fn |-> fn, target |-> target_name, key |-> key]

\* collection_of with the two stream collections taken for each other.
collection_of_swapped(action) ==
    CASE action = <<"get_live_categories">> -> SomeStr("cat_live")
      [] action = <<"get_vod_categories">> -> SomeStr("cat_vod")
      [] action = <<"get_series_categories">> -> SomeStr("cat_series")
      [] action = <<"get_live_streams">> -> SomeStr("vod")
      [] action = <<"get_vod_streams">> -> SomeStr("live")
      [] action = <<"get_series">> -> SomeStr("series")
      [] OTHER -> None

\* The collection an action of the inner match asks for (lines 145-150), if
\* any.
collection_of(action) ==
    CASE action = <<"get_live_categories">> -> SomeStr("cat_live")
      [] action = <<"get_vod_categories">> -> SomeStr("cat_vod")
      [] action = <<"get_series_categories">> -> SomeStr("cat_series")
      [] action = <<"get_live_streams">> -> SomeStr("live")
      [] action = <<"get_vod_streams">> -> SomeStr("vod")
      [] action = <<"get_series">> -> SomeStr("series")
      [] OTHER -> None

\* info_action that asks the repository before it looks at what the parse
\* gave.
info_action_lookup_first(repo, target_name, fn, id_text) ==
    LET stream_id == from_str(trim(id_text))
        content == IF fn = "xtream_get_series_info"
                   THEN xtream_get_series_info(repo, target_name, stream_id.val)
                   ELSE xtream_get_vod_info(repo, target_name, stream_id.val)
        looked == <<Lookup(fn, target_name, stream_id.val)>>
    IN  IF ~stream_id.ok THEN Handled(Finish(400), looked)
        ELSE IF content.tag = "Ok"
        THEN Handled(HttpResponse(200, "application/json",
                                  [kind |-> "text", text |-> content.val]), looked)
        ELSE Handled(Finish(204), looked)

\* The arms get_series_info and get_vod_info (lines 121-142): the id is
\* parsed, and the detail of the parsed id is looked up.
info_action(repo, target_name, fn, id_text) ==
    LET stream_id == from_str(trim(id_text))
    IN  IF stream_id.ok
        THEN LET content == IF fn = "xtream_get_series_info"
                            THEN xtream_get_series_info(repo, target_name, stream_id.val)
                            ELSE xtream_get_vod_info(repo, target_name, stream_id.val)
             IN  Handled(IF content.tag = "Ok"
                         THEN HttpResponse(200, "application/json",
                                           [kind |-> "text", text |-> content.val])
                         ELSE Finish(204),
                         <<Lookup(fn, target_name, stream_id.val)>>)
        ELSE Handled(Finish(400), <<>>)

\* The last arm (lines 143-168): a collection of the target, or nothing.
collection_action(repo, target_name, action) ==
    LET collection == collection_of(action)
    IN  IF collection.some
        THEN LET got == xtream_get_all(repo, target_name, collection.s)
                 looked == <<Lookup("xtream_get_all", target_name, collection.s)>>
             IN  IF got.tag = "Ok"
                 THEN IF got.val.path.some
                      THEN Handled(serve_file(got.val.path.s), looked)
                      ELSE IF got.val.content.some
                      THEN Handled(HttpResponse(200, "", [kind |-> "text",
                                                          text |-> got.val.content.s]),
                                   looked)
                      ELSE Handled(Finish(204), looked)
                 ELSE Handled(Finish(204), looked)
        ELSE Handled(Finish(204), <<>>)

\* cant_find_user that answers every request alike.
cant_find_user_bad_request(req) == Finish(400)

\* The arm of the request whose credentials resolve to no user and target
\* (lines 175-183).
cant_find_user(req) == IF is_empty(req.action) THEN Finish(401) ELSE Finish(400)

\* xtream_player_api: the response to a request of /player_api.php or
\* /xtream, and the lookups made for it.
xtream_player_api(req, cfg, repo, now) ==
    LET resolved == get_user_target(req, cfg)
    IN  IF resolved.some
        THEN LET user == resolved.v.user
                 target == resolved.v.target
                 action == trim(req.action)
                 target_name == target.name
             IN  IF has_output(target, "Xtream")
                 THEN IF is_empty(action)
                      THEN Handled(HttpResponse(200, "application/json",
                                       [kind |-> "json", json |-> get_user_info(user, cfg, now)]),
                                   <<>>)
                      ELSE CASE action = <<"get_series_info">> ->
                                  info_action(repo, target_name, "xtream_get_series_info",
                                              req.series_id)
                             [] action = <<"get_vod_info">> ->
                                  info_action(repo, target_name, "xtream_get_vod_info",
                                              req.vod_id)
                             [] OTHER -> collection_action(repo, target_name, action)
                 ELSE Handled(Finish(400), <<>>)
        ELSE Handled(cant_find_user(req), <<>>)

\* ------------------------------------------------------------------------
\* The stream relay
\* ------------------------------------------------------------------------

\* What the relay does before it awaits the provider: it answers, or
\* panics, or sends a request.
Answer(resp) == [tag |-> "answer", response |-> resp, url |-> ""]

Panic == [tag |-> "panic", response |-> <<>>, url |-> ""]

Send(upstream_url) == [tag |-> "send", response |-> <<>>, url |-> upstream_url]

\* The text of a path: every segment after a slash.
RECURSIVE path_text(_)
path_text(path) ==
    IF path = <<>> THEN "" ELSE "/" \o Head(path) \o path_text(Tail(path))

\* What Url::parse makes of the path of an http URL: a segment "." is
\* dropped and a segment ".." takes the segment before it away, and either
\* one at the end of the path leaves an empty last segment.
RECURSIVE remove_dot_segments(_, _)
remove_dot_segments(path, parsed) ==
    IF path = <<>> THEN parsed
    ELSE LET at_end == IF Len(path) = 1 THEN <<"">> ELSE <<>>
         IN  CASE Head(path) = ".." ->
                     remove_dot_segments(Tail(path),
                         SubSeq(parsed, 1, Len(parsed) - 1) \o at_end)
               [] Head(path) = "." ->
                     remove_dot_segments(Tail(path), parsed \o at_end)
               [] OTHER ->
                     remove_dot_segments(Tail(path), Append(parsed, Head(path)))

\* reqwest::Url::parse over the URLs of the model, upstream_url being
\* input_url followed by the text of path: a URL without scheme is relative
\* and has no base, and the URL parsed is the text with its dot segments
\* removed.
Url_parse(upstream_url, input_url, path) ==
    IF input_url \in {"http://up.example"}
    THEN [ok |-> TRUE,
          url |-> IF remove_dot_segments(path, <<>>) = path THEN upstream_url
                  ELSE input_url \o path_text(remove_dot_segments(path, <<>>))]
    ELSE [ok |-> FALSE, url |-> ""]

\* xtream_player_api_stream up to client.send() (lines 55-66).  Option::unwrap
\* panics on None, and Result::unwrap on Err.
xtream_player_api_stream(req, cfg, context, username, password, stream_id) ==
    LET resolved == get_user_target_by_credentials(username, password, req, cfg)
    IN  IF resolved.some /\ has_output(resolved.v.target, "Xtream")
        THEN LET input == get_xtream_input_for_target(cfg, resolved.v.target.name)
             IN  IF ~input.some THEN Answer(Finish(400))
                 ELSE IF ~input.v.username.some \/ ~input.v.password.some THEN Panic
                 ELSE LET upstream_url == input.v.url \o "/" \o context \o "/"
                                        \o input.v.username.s \o "/" \o input.v.password.s
                                        \o "/" \o stream_id
                          parsed == Url_parse(upstream_url, input.v.url,
                                        <<context, input.v.username.s,
                                          input.v.password.s, stream_id>>)
                      IN  IF parsed.ok THEN Send(parsed.url) ELSE Panic
        ELSE Answer(Finish(400))

\* The rest of xtream_player_api_stream (lines 66-75), given what came of
\* client.send().await: a response with a status, or an error.
relay_response(sent) ==
    IF sent.ok /\ sent.status \in 200..299
    THEN HttpResponse(200, "", [kind |-> "stream", of |-> sent.body])
    ELSE Finish(400)

\* ------------------------------------------------------------------------
\* The errors of a run and their notification
\* ------------------------------------------------------------------------

\* enum M3uFilterErrorKind
M3uFilterErrorKind == {"Info", "Notify"}

\* struct M3uFilterError.  A String is the sequence of its bytes.
M3uFilterError(kind, message) == [kind |-> kind, message |-> message]

\* The bytes that do not begin a character: "~2" is the second byte of a
\* character of two bytes, whose first byte is "~1".
ContinuationBytes == {"~2"}

\* str::is_char_boundary
is_char_boundary(text, index) ==
    \/ index = 0
    \/ index = Len(text)
    \/ index < Len(text) /\ text[index + 1] \notin ContinuationBytes

\* str::get(0..to): None when the range ends past the text or inside a
\* character.
str_get(text, to) ==
    IF to <= Len(text) /\ is_char_boundary(text, to)
    THEN [some |-> TRUE, v |-> SubSeq(text, 1, to)]
    ELSE [some |-> FALSE, v |-> <<>>]

\* [&str]::join
RECURSIVE join(_, _)
join(texts, sep) ==
    IF texts = <<>> THEN <<>>
    ELSE IF Len(texts) = 1 THEN texts[1]
    ELSE texts[1] \o sep \o join(Tail(texts), sep)

\* std::cmp::max
max(a, b) == IF a > b THEN a ELSE b

\* Option<String> as get_notify_message gives it, or the panic of unwrap.
NoMessage == [tag |-> "None", text |-> <<>>]

SomeMessage(text) == [tag |-> "Some", text |-> text]

MessagePanic == [tag |-> "panic", text |-> <<>>]

\* get_notify_message!(errors, size), for a size of 0 or of 3 and more.
get_notify_message(errors, size) ==
    IF errors = <<>> THEN NoMessage
    ELSE LET notify == SelectSeq(errors, LAMBDA err : err.kind = "Notify")
             text == join([i \in DOMAIN notify |-> notify[i].message], <<"\n">>)
         IN  IF size > 0 /\ Len(text) > max(size - 3, 3)
             THEN IF str_get(text, size).some
                  THEN SomeMessage(str_get(text, size).v \o <<".", ".", ".">>)
                  ELSE MessagePanic
             ELSE SomeMessage(text)

\* ------------------------------------------------------------------------
\* The configuration is prepared
\* ------------------------------------------------------------------------

\* text.trim().is_empty() over the texts of the model: the empty text and
\* the texts of whitespace.
is_blank(text) == text \in {"", " ", " \t"}

\* An Option<String> that holds a blank text becomes None.
none_if_blank(option) == IF option.some /\ is_blank(option.s) THEN None ELSE option

\* default_as_default()
default_as_default == "default"

\* ConfigInput::prepare that takes an xtream input without username or
\* password as it takes an m3u input.
ConfigInput_prepare_lenient(input, id) ==
    LET blanked == [input EXCEPT !.id = id,
                                 !.username = none_if_blank(@),
                                 !.password = none_if_blank(@)]
    IN  IF is_blank(input.url)
        THEN [Err("Info", "url for input is mandatory") EXCEPT
                 !.val = [input EXCEPT !.id = id]]
        ELSE Ok([blanked EXCEPT !.persist = none_if_blank(@)])

\* ConfigInput::prepare (lines 400-435): the Result, whose val is the input
\* as the call leaves it.
ConfigInput_prepare(input, id) ==
    LET blanked == [input EXCEPT !.id = id,
                                 !.username = none_if_blank(@),
                                 !.password = none_if_blank(@)]
    IN  IF is_blank(input.url)
        THEN [Err("Info", "url for input is mandatory") EXCEPT
                 !.val = [input EXCEPT !.id = id]]
        ELSE IF /\ input.input_type = "Xtream"
                /\ (~blanked.username.some \/ ~blanked.password.some)
        THEN [Err("Info", "for input type xtream: username and password are mandatory")
                 EXCEPT !.val = blanked]
        ELSE Ok([blanked EXCEPT !.persist = none_if_blank(@)])

\* Display for M3uFilterError
M3uFilterError_to_string(err) == "M3uFilter error: " \o err.message

\* ConfigSource::prepare (lines 305-308): every input is prepared, with the
\* ids index, index + 1, ...; the errors of all inputs make one error;
\* without an error the next index is returned with the source.
ConfigSource_prepare(source, index) ==
    LET results == [idx \in DOMAIN source.inputs |->
                       ConfigInput_prepare(source.inputs[idx], index + (idx - 1))]
        failed == SelectSeq(results, LAMBDA result : result.tag = "Err")
        prepared_source == [source EXCEPT !.inputs = [idx \in DOMAIN results |-> results[idx].val]]
    IN  IF failed # <<>>
        THEN [Err("Info", join([i \in DOMAIN failed |-> M3uFilterError_to_string(failed[i])], "\n"))
                 EXCEPT !.val = [index |-> index, source |-> prepared_source]]
        ELSE Ok([index |-> index + Len(source.inputs), source |-> prepared_source])

\* The number of outputs of a type among the outputs of a target.
output_count(output, tt) == Cardinality({i \in DOMAIN output : output[i] = tt})

\* ConfigTarget::prepare (lines 207-263) for a target whose m3u and strm
\* outputs name a file, that has no watch, rename or sort, and whose filter
\* parses.
ConfigTarget_prepare(target, id) ==
    IF target.output = <<>>
    THEN Err("Info", "Missing output format for " \o target.name)
    ELSE IF /\ \E i \in DOMAIN target.output : target.output[i] = "Xtream"
            /\ eq_ignore_ascii_case(default_as_default, target.name)
    THEN Err("Info", "unique target name is required for xtream type: " \o target.name)
    ELSE IF \E tt \in TargetType : output_count(target.output, tt) > 1
    THEN Err("Info", "Multiple output formats with same type : " \o target.name)
    ELSE Ok([target EXCEPT !.id = id])

\* The loop over the targets of a source in Config::prepare (lines 690-706),
\* from target k on: names are the names seen, done the targets prepared.
RECURSIVE prepare_targets(_, _, _, _, _)
prepare_targets(targets, k, target_index, names, done) ==
    IF k > Len(targets)
    THEN Ok([targets |-> done, target_index |-> target_index, names |-> names])
    ELSE LET target_name == targets[k].name
             is_default == eq_ignore_ascii_case(default_as_default, target_name)
             prepare_result == ConfigTarget_prepare(targets[k], target_index)
         IN  IF ~is_default /\ target_name \in names
             THEN Err("Info", "target names should be unique: " \o target_name)
             ELSE IF prepare_result.tag = "Err" THEN prepare_result
             ELSE prepare_targets(targets, k + 1, target_index + 1,
                                  IF is_default THEN names ELSE names \cup {target_name},
                                  Append(done, prepare_result.val))

\* The loop over the sources in Config::prepare (lines 688-708), from
\* source k on.
RECURSIVE prepare_sources(_, _, _, _, _, _)
prepare_sources(sources, k, source_index, target_index, names, done) ==
    IF k > Len(sources) THEN Ok(done)
    ELSE LET source_result == ConfigSource_prepare(sources[k], source_index)
         IN  IF source_result.tag = "Err"
             THEN Err(source_result.kind, source_result.message)
             ELSE LET targets_result ==
                          prepare_targets(source_result.val.source.targets, 1,
                                          target_index, names, <<>>)
                  IN  IF targets_result.tag = "Err" THEN targets_result
                      ELSE prepare_sources(sources, k + 1, source_result.val.index,
                               targets_result.val.target_index, targets_result.val.names,
                               Append(done, [source_result.val.source EXCEPT
                                                !.targets = targets_result.val.targets]))

\* Config::prepare (lines 659-726) for a configuration without templates
\* and without a video section: the sources are prepared and the ids set.
Config_prepare(cfg) ==
    LET result == prepare_sources(cfg.sources, 1, 1, 1, {}, <<>>)
    IN  IF result.tag = "Err" THEN result
        ELSE Ok([cfg EXCEPT !.sources = result.val])

\* ------------------------------------------------------------------------
\* The state: one input and cluster is normalized, and normalized again
\* ------------------------------------------------------------------------

VARIABLES
    category,        \* the category payload fetched from the provider
    streams,         \* the stream payload fetched from the provider
    xtream_cluster,  \* the cluster being processed
    url,             \* the input's base URL
    username,        \* the input's user
    password,        \* the input's password
    cat_id_cnt,      \* the group-id counter (AtomicI32)
    pc,              \* "ready", "once", "twice": calls of parse_xtream made
    first_cnt,       \* the counter value the first call started from
    first_pass,      \* what the first call returned
    second_pass,     \* what the second call returned
    second_cnt       \* the counter value the second call started from

\* Passes that run in parallel on one counter: each is in its emission loop
\* (lines 303-312), where fetch_add and load are two operations.
VARIABLES
    to_emit,         \* per pass, the map entries not visited yet
    emit_pc,         \* per pass, the operation it does next: "fetch_add", "load"
    written,         \* per pass, the value its last fetch_add left in the counter
    emitted          \* per pass, the ids of the groups it has emitted

parallel == <<to_emit, emit_pc, written, emitted>>

\* The server: configuration and repository, and the request the Player
\* API handler or the stream relay has handled last.
VARIABLES
    config,          \* Config: sources (inputs, targets) and _api_proxy
    repository,      \* what the repository holds for the targets
    api_req,         \* the request handled last
    response,        \* the HttpResponse it was answered with
    lookups,         \* the repository lookups made for it
    upstream,        \* the requests sent to the provider for it
    relay            \* what the provider gave, and the two connections of a relay

server == <<config, repository>>

api == <<server, api_req, response, lookups, upstream, relay>>

\* The start of the program: the configuration is prepared, and in CLI mode
\* the errors of the run are reported.
VARIABLES
    loaded,          \* the Config as it was read
    prepared,        \* what Config::prepare or ConfigInput::prepare returned
    errors,          \* the errors process_sources returned
    size,            \* the size limit of the notification
    cli              \* what start_in_cli_mode did with the errors

startup == <<loaded, prepared, errors, size, cli>>

vars == <<category, streams, xtream_cluster, url, username, password,
          cat_id_cnt, pc, first_cnt, first_pass, second_pass, second_cnt,
          parallel, api, startup>>

inputs == <<category, streams, xtream_cluster, url, username, password>>

\* No server is running.
NoServer ==
    /\ config = <<>>
    /\ repository = <<>>
    /\ api_req = <<>>
    /\ response = <<>>
    /\ lookups = <<>>
    /\ upstream = <<>>
    /\ relay = <<>>

\* The program is past its start, and not in CLI mode.
NoStartup ==
    /\ loaded = <<>>
    /\ prepared = <<>>
    /\ errors = <<>>
    /\ size = 0
    /\ cli = <<>>

\* No pass is in its emission loop.
NoParallelPass ==
    /\ to_emit = <<>>
    /\ emit_pc = <<>>
    /\ written = <<>>
    /\ emitted = <<>>

Init ==
    /\ category \in CategoryPayloads
    /\ streams \in StreamPayloads
    /\ xtream_cluster \in XtreamCluster
    /\ url = "http://p.example"
    /\ username = "u"
    /\ password = "p"
    /\ cat_id_cnt \in CounterStarts
    /\ pc = "ready"
    /\ first_cnt = cat_id_cnt
    /\ first_pass = NotRun
    /\ second_pass = NotRun
    /\ second_cnt = 0
    /\ NoParallelPass
    /\ NoServer
    /\ NoStartup

\* The first normalization pass over the input.
Normalize ==
    /\ pc = "ready"
    /\ \E order \in visit_orders(category, xtream_cluster, streams) :
          LET r == parse_xtream(cat_id_cnt, xtream_cluster, category, url,
                                username, password, streams, order)
          IN  /\ first_pass' = r.result
              /\ cat_id_cnt' = r.cat_id_cnt
    /\ pc' = "once"
    /\ UNCHANGED <<inputs, first_cnt, second_pass, second_cnt, parallel, api, startup>>

\* The same payloads are normalized again, on the same counter or on a
\* fresh one.
NormalizeAgain ==
    /\ pc = "once"
    /\ \E fresh \in BOOLEAN :
       \E order \in visit_orders(category, xtream_cluster, streams) :
          LET start == IF fresh THEN 0 ELSE cat_id_cnt
              r == parse_xtream(start, xtream_cluster, category, url,
                                username, password, streams, order)
          IN  /\ second_pass' = r.result
              /\ second_cnt' = start
              /\ cat_id_cnt' = r.cat_id_cnt
    /\ pc' = "twice"
    /\ UNCHANGED <<inputs, first_cnt, first_pass, parallel, api, startup>>

Next == Normalize \/ NormalizeAgain

Spec == Init /\ [][Next]_vars

\* ------------------------------------------------------------------------
\* Passes in parallel on one counter
\* ------------------------------------------------------------------------

\* The number of passes that share the counter, and the most entries the
\* maps of all passes hold together.
MaxPasses == 2

MaxEmit == 4

Passes == 1..MaxPasses

\* The entries of the maps of the passes 1 .. p.
RECURSIVE EntriesUpTo(_, _)
EntriesUpTo(n, p) == IF p = 0 THEN 0 ELSE n[p] + EntriesUpTo(n, p - 1)

\* The passes have decoded their payloads and filled their maps; each is
\* about to visit the entries of its map.
InitParallel ==
    /\ category = NotAnArray
    /\ streams = NotAnArray
    /\ xtream_cluster = "Live"
    /\ url = "http://p.example"
    /\ username = "u"
    /\ password = "p"
    /\ cat_id_cnt \in CounterStarts
    /\ pc = "emit"
    /\ first_cnt = cat_id_cnt
    /\ first_pass = NotRun
    /\ second_pass = NotRun
    /\ second_cnt = 0
    /\ to_emit \in {n \in [Passes -> 0..MaxEmit] : EntriesUpTo(n, MaxPasses) <= MaxEmit}
    /\ emit_pc = [p \in Passes |-> "fetch_add"]
    /\ written = [p \in Passes |-> cat_id_cnt]
    /\ emitted = [p \in Passes |-> <<>>]
    /\ NoServer
    /\ NoStartup

\* Pass p increments the counter from the value the pass saw last, in a
\* read and a write that are not one operation.
FetchAdd_from_seen(p) ==
    /\ emit_pc[p] = "fetch_add"
    /\ to_emit[p] > 0
    /\ cat_id_cnt' = fetch_add(written[p])
    /\ written' = [written EXCEPT ![p] = cat_id_cnt']
    /\ emit_pc' = [emit_pc EXCEPT ![p] = "load"]
    /\ UNCHANGED <<inputs, pc, first_cnt, first_pass, second_pass, second_cnt,
                   to_emit, emitted, api, startup>>

\* Pass p visits the next entry of its map: cat_id_cnt.fetch_add(1, Relaxed),
\* an atomic read-modify-write (line 305).
FetchAdd(p) ==
    /\ emit_pc[p] = "fetch_add"
    /\ to_emit[p] > 0
    /\ cat_id_cnt' = fetch_add(cat_id_cnt)
    /\ written' = [written EXCEPT ![p] = cat_id_cnt']
    /\ emit_pc' = [emit_pc EXCEPT ![p] = "load"]
    /\ UNCHANGED <<inputs, pc, first_cnt, first_pass, second_pass, second_cnt,
                   to_emit, emitted, api, startup>>

\* Pass p builds the group: id: cat_id_cnt.load(Relaxed) (line 307).  A
\* relaxed load returns the value the pass wrote itself or one written to
\* the counter after it.
Load(p) ==
    /\ emit_pc[p] = "load"
    /\ \E id \in written[p]..cat_id_cnt :
          emitted' = [emitted EXCEPT ![p] = Append(@, id)]
    /\ to_emit' = [to_emit EXCEPT ![p] = @ - 1]
    /\ emit_pc' = [emit_pc EXCEPT ![p] = "fetch_add"]
    /\ UNCHANGED <<inputs, pc, first_cnt, first_pass, second_pass, second_cnt,
                   cat_id_cnt, written, api, startup>>

NextParallel == \E p \in Passes : FetchAdd(p) \/ Load(p)

SpecParallel == InitParallel /\ [][NextParallel]_vars

\* ------------------------------------------------------------------------
\* The servers of the model
\* ------------------------------------------------------------------------

\* struct ConfigInput
ConfigInput(input_type, input_url, input_username, input_password) ==
    [input_type |-> input_type, url |-> input_url,
     username |-> input_username, password |-> input_password]

\* struct ConfigTarget
ConfigTarget(name, output) == [name |-> name, output |-> output]

\* struct ConfigSource
ConfigSource(source_inputs, targets) == [inputs |-> source_inputs, targets |-> targets]

M3uInput == ConfigInput("M3u", "http://m3u.example/list", None, None)

XtreamInput == ConfigInput("Xtream", "http://up.example", SomeStr("iu"), SomeStr("ip"))

\* An xtream input whose URL has no scheme.
XtreamInputNoScheme == ConfigInput("Xtream", "up.example", SomeStr("iu"), SomeStr("ip"))

\* An xtream input as it is read from a configuration that names no
\* password for it.
XtreamInputNoPassword == ConfigInput("Xtream", "http://up.example", SomeStr("iu"), None)

\* The source of the targets TV (m3u and xtream output) and radio (m3u
\* output only), given its xtream input.
MainSource(xtream_input) ==
    ConfigSource(<<M3uInput, xtream_input>>,
                 <<ConfigTarget("TV", <<"M3u", "Xtream">>), ConfigTarget("radio", <<"M3u">>)>>)

\* A source with xtream output and no xtream input.
FilmSource == ConfigSource(<<M3uInput>>, <<ConfigTarget("films", <<"Xtream">>)>>)

\* A source with xtream output whose xtream input has no password.
AtticSource == ConfigSource(<<XtreamInputNoPassword>>, <<ConfigTarget("attic", <<"Xtream">>)>>)

\* struct ApiProxyConfig: the server's display data and the users, each
\* with the name of the target it is served.
ApiProxyConfig ==
    [server |-> [message |-> "welcome", ip |-> "proxy.example", http_port |-> 8901,
                 https_port |-> "", protocol |-> "http", rtmp_port |-> "",
                 timezone |-> "UTC"],
     user |-> << [username |-> "alice", password |-> "pw-a", token |-> "tok-a", target |-> "tv"],
                 [username |-> "bob", password |-> "pw-b", token |-> "", target |-> "radio"],
                 [username |-> "carol", password |-> "pw-c", token |-> "", target |-> "films"],
                 [username |-> "dave", password |-> "pw-d", token |-> "", target |-> "attic"],
                 [username |-> "erin", password |-> "pw-e", token |-> "", target |-> "gone"] >>]

\* The configurations a server runs with.
Configs ==
    { [sources |-> <<MainSource(XtreamInput), FilmSource>>,
       api_proxy |-> [some |-> TRUE, v |-> ApiProxyConfig]],
      [sources |-> <<MainSource(XtreamInput), FilmSource, AtticSource>>,
       api_proxy |-> [some |-> TRUE, v |-> ApiProxyConfig]],
      [sources |-> <<MainSource(XtreamInputNoScheme), FilmSource>>,
       api_proxy |-> [some |-> TRUE, v |-> ApiProxyConfig]],
      [sources |-> <<MainSource(XtreamInput), FilmSource>>,
       api_proxy |-> [some |-> FALSE, v |-> <<>>]] }

\* The names of the targets that have something in the repository.
StoredTargets == {"TV", "radio", "films"}

\* The repositories: in the k-th one the i-th collection of a target is
\* held in the (i+k)-th way, and the details of series 7 and video 42 are
\* cached.
Repositories ==
    { [all |-> [t \in StoredTargets |->
                   [c \in {Collections[i] : i \in DOMAIN Collections} |->
                       LET i == CHOOSE j \in DOMAIN Collections : Collections[j] = c
                       IN  Holdings[((i + k) % Len(Holdings)) + 1]]],
       series_info |-> [t \in StoredTargets |-> {7}],
       vod_info |-> [t \in StoredTargets |-> {42}]] : k \in DOMAIN Holdings }

\* The credentials a caller may present.
Credentials ==
    { [username |-> "alice", password |-> "pw-a", token |-> ""],
      [username |-> "alice", password |-> "pw-x", token |-> ""],
      [username |-> "bob", password |-> "pw-b", token |-> ""],
      [username |-> "bob", password |-> "pw-x", token |-> ""],
      [username |-> "carol", password |-> "pw-c", token |-> ""],
      [username |-> "dave", password |-> "pw-d", token |-> ""],
      [username |-> "erin", password |-> "pw-e", token |-> ""],
      [username |-> "", password |-> "", token |-> "tok-a"],
      [username |-> "", password |-> "", token |-> "tok-x"],
      [username |-> "", password |-> "", token |-> ""] }

\* The action parameters a caller may send.
ActionTexts ==
    { <<>>, <<" ">>, <<"get_series_info">>, <<"get_vod_info">>, <<" ", "get_vod_info">>,
      <<"get_live_categories">>, <<"get_vod_categories">>, <<"get_series_categories">>,
      <<"get_live_streams">>, <<"get_vod_streams">>, <<"get_series">>, <<"get_series", " ">>,
      <<"get_short_epg">>, <<"get_series", " ", "info">> }

\* The series_id and vod_id parameters a caller may send.
IdTexts == { <<>>, <<"7">>, <<" ", "42", " ">>, <<"abc">>, <<"9">>, <<"4", " ", "2">> }

\* The series_id and vod_id a request carries: one of the two varies.
IdPairs == {<<s, <<"abc">>>> : s \in IdTexts} \cup {<<<<"7">>, v>> : v \in IdTexts}

\* struct UserApiRequest
UserApiRequest(credentials, action, ids) ==
    [username |-> credentials.username, password |-> credentials.password,
     token |-> credentials.token, action |-> action,
     series_id |-> ids[1], vod_id |-> ids[2]]

\* The requests of the Player API: the ids vary with the actions that read
\* them.
ApiRequests ==
    {UserApiRequest(c, a, <<<<>>, <<>>>>) : c \in Credentials, a \in ActionTexts}
    \cup {UserApiRequest(c, a, ids) :
             c \in Credentials,
             a \in {<<"get_series_info">>, <<"get_vod_info">>, <<" ", "get_vod_info">>},
             ids \in IdPairs}

\* Local::now(), as seconds since the epoch.
Now == 1700000000

\* No normalization pass runs.
NoNormalizer ==
    /\ category = NotAnArray
    /\ streams = NotAnArray
    /\ xtream_cluster = "Live"
    /\ url = ""
    /\ username = ""
    /\ password = ""
    /\ cat_id_cnt = 0
    /\ pc = "serve"
    /\ first_cnt = 0
    /\ first_pass = NotRun
    /\ second_pass = NotRun
    /\ second_cnt = 0
    /\ NoParallelPass

normalizer == <<inputs, cat_id_cnt, pc, first_cnt, first_pass, second_pass, second_cnt, parallel>>

\* No HttpResponse: no request is being handled, or the handler awaits the
\* provider, or it has panicked.
NoResponse(why) == HttpResponse(0, "", [kind |-> why])

\* The chunks of a body that the model follows.
MaxChunks == 2

\* No relay: nothing came from the provider, no connection to it, and the
\* caller is connected.  answers is what client.send().await gave, up is the
\* connection to the provider (none, requested, open, ended by the
\* provider, closed by the server), down is the caller's connection (here,
\* gone), buffered tells that bytes wait to be written to the caller, and
\* relayed counts the writes.
NoRelay ==
    [answers |-> <<>>, up |-> "none", down |-> "here", buffered |-> FALSE,
     relayed |-> 0]

\* The server has started: it has no request to handle.
InitServer ==
    /\ NoNormalizer
    /\ NoStartup
    /\ config \in Configs
    /\ repository \in Repositories
    /\ api_req = <<>>
    /\ response = NoResponse("idle")
    /\ lookups = <<>>
    /\ upstream = <<>>
    /\ relay = NoRelay

\* The handler has returned and the next request may come.
ResponseSent ==
    /\ response.body.kind \notin {"idle", "pending"}
    /\ relay.up \notin {"requested", "open"}
    /\ api_req' = <<>>
    /\ response' = NoResponse("idle")
    /\ lookups' = <<>>
    /\ upstream' = <<>>
    /\ relay' = NoRelay
    /\ UNCHANGED <<startup, normalizer, server>>

\* PlayerApi that notes in the repository, for every target, that the
\* detail of a series was asked for.
PlayerApi_noting ==
    /\ response.body.kind = "idle"
    /\ \E req \in ApiRequests :
          LET handled == xtream_player_api(req, config, repository, Now)
          IN  /\ api_req' = req
              /\ response' = handled.response
              /\ lookups' = handled.lookups
              /\ repository' =
                    IF handled.lookups # <<>> /\ handled.lookups[1].fn = "xtream_get_series_info"
                    THEN [repository EXCEPT !.series_info =
                             [t \in DOMAIN @ |-> @[t] \cup {handled.lookups[1].key}]]
                    ELSE repository
    /\ upstream' = <<>>
    /\ UNCHANGED <<startup, normalizer, config, relay>>

\* A request of /player_api.php or /xtream is handled.
PlayerApi ==
    /\ response.body.kind = "idle"
    /\ \E req \in ApiRequests :
          LET handled == xtream_player_api(req, config, repository, Now)
          IN  /\ api_req' = req
              /\ response' = handled.response
              /\ lookups' = handled.lookups
    /\ upstream' = <<>>
    /\ UNCHANGED <<startup, normalizer, server, relay>>

NextApi == PlayerApi \/ ResponseSent

SpecApi == InitServer /\ [][NextApi]_vars

\* The routes of the relay and the context each hands on (lines 78-103,
\* 191-193).
RelayContexts == {"live", "movie", "series"}

\* The stream ids a caller may ask for: the last segment of the path of the
\* request, which the router takes as it is.
StreamIds == {"42", "7.mkv", ".."}

\* What client.send().await may give: a success, another status, an error.
Sent ==
    { [ok |-> TRUE, status |-> 200, body |-> "bytes"],
      [ok |-> TRUE, status |-> 404, body |-> ""],
      [ok |-> FALSE, status |-> 0, body |-> ""] }

\* A request of /live, /movie or /series is handled up to
\* client.send().await.
RelayRequest ==
    /\ response.body.kind = "idle"
    /\ \E c \in Credentials, context \in RelayContexts, stream_id \in StreamIds :
          LET req == UserApiRequest(c, <<>>, <<<<>>, <<>>>>)
              did == xtream_player_api_stream(req, config, context,
                                              c.username, c.password, stream_id)
          IN  /\ api_req' = [route |-> context, username |-> c.username,
                             password |-> c.password, token |-> c.token,
                             stream_id |-> stream_id]
              /\ response' = CASE did.tag = "answer" -> did.response
                               [] did.tag = "panic" -> NoResponse("panic")
                               [] OTHER -> NoResponse("pending")
              /\ upstream' = IF did.tag = "send" THEN <<did.url>> ELSE <<>>
              /\ relay' = [NoRelay EXCEPT
                              !.up = IF did.tag = "send" THEN "requested" ELSE "none"]
    /\ lookups' = <<>>
    /\ UNCHANGED <<startup, normalizer, server>>

\* UpstreamAnswers of a handler that asks the provider once more when the
\* request failed or the status is no success.
UpstreamAnswers_retrying ==
    /\ response.body.kind = "pending"
    /\ \E sent \in Sent :
          IF ~(sent.ok /\ sent.status \in 200..299) /\ Len(upstream) < 2
          THEN /\ upstream' = Append(upstream, upstream[1])
               /\ relay' = [relay EXCEPT !.answers = Append(@, sent)]
               /\ UNCHANGED response
          ELSE /\ response' = relay_response(sent)
               /\ relay' = [relay EXCEPT
                               !.answers = Append(@, sent),
                               !.up = IF response'.status = 200 THEN "open" ELSE "closed",
                               !.buffered = response'.status = 200]
               /\ UNCHANGED upstream
    /\ UNCHANGED <<startup, normalizer, server, api_req, lookups>>

\* The provider answers, or the request to it fails, and the handler ends
\* (lines 66-75): with the streaming response the connection to the
\* provider stays open and the head waits to be written; any other outcome
\* drops the connection when the handler returns.
UpstreamAnswers ==
    /\ response.body.kind = "pending"
    /\ \E sent \in Sent :
          /\ response' = relay_response(sent)
          /\ relay' = [relay EXCEPT
                          !.answers = Append(@, sent),
                          !.up = IF response'.status = 200 THEN "open" ELSE "closed",
                          !.buffered = response'.status = 200]
    /\ UNCHANGED <<startup, normalizer, server, api_req, lookups, upstream>>

\* The caller closes its connection while the handler awaits the provider
\* or while the body is relayed.  Nothing in the handler waits for this.
ClientDisconnects ==
    /\ response.body.kind \in {"pending", "stream"}
    /\ relay.up \in {"requested", "open"}
    /\ relay.down = "here"
    /\ relay' = [relay EXCEPT !.down = "gone"]
    /\ UNCHANGED <<startup, normalizer, server, api_req, response, lookups, upstream>>

\* The provider delivers bytes of the body: response.bytes_stream() yields
\* a chunk.
UpstreamDelivers ==
    /\ response.body.kind = "stream"
    /\ relay.up = "open"
    /\ ~relay.buffered
    /\ relay.relayed < MaxChunks
    /\ relay' = [relay EXCEPT !.buffered = TRUE]
    /\ UNCHANGED <<startup, normalizer, server, api_req, response, lookups, upstream>>

\* The provider ends the body.
UpstreamEnds ==
    /\ response.body.kind = "stream"
    /\ relay.up = "open"
    /\ ~relay.buffered
    /\ relay' = [relay EXCEPT !.up = "ended"]
    /\ UNCHANGED <<startup, normalizer, server, api_req, response, lookups, upstream>>

\* The body handed to HttpResponse::streaming (line 69) is driven by the
\* connection's task: it writes what waits to the caller; a write to a
\* caller that is gone fails, the task ends and drops the body stream, and
\* with it the connection to the provider.
DispatcherWrites ==
    /\ response.body.kind = "stream"
    /\ relay.up = "open"
    /\ relay.buffered
    /\ relay' = IF relay.down = "gone"
                THEN [relay EXCEPT !.buffered = FALSE, !.up = "closed"]
                ELSE [relay EXCEPT !.buffered = FALSE, !.relayed = @ + 1]
    /\ UNCHANGED <<startup, normalizer, server, api_req, response, lookups, upstream>>

NextRelay ==
    \/ RelayRequest
    \/ UpstreamAnswers
    \/ ClientDisconnects
    \/ UpstreamDelivers
    \/ UpstreamEnds
    \/ DispatcherWrites
    \/ ResponseSent

SpecRelay == InitServer /\ [][NextRelay]_vars

\* The steps of the server are taken when they can be; the provider and the
\* caller owe no step.
SpecRelayFair ==
    SpecRelay /\ WF_vars(DispatcherWrites) /\ WF_vars(ResponseSent)

\* ------------------------------------------------------------------------
\* CLI mode: the errors of the run are reported
\* ------------------------------------------------------------------------

\* The longest list of errors a run returns.
MaxErrors == 3

\* The messages of the errors: one byte, two bytes, and five bytes that end
\* with a character of two bytes.
ErrorMessages == { <<"x">>, <<"n", "o">>, <<"c", "a", "f", "~1", "~2">> }

\* The lists of errors process_sources may return.
ErrorLists ==
    SeqsUpTo({M3uFilterError(kind, message) :
                 kind \in M3uFilterErrorKind, message \in ErrorMessages}, MaxErrors)

\* The size limits of a notification: none, and two limits that the texts
\* of the model reach (start_in_cli_mode passes 255).
NotifySizes == {0, 6, 8}

\* The run of start_in_cli_mode has returned its errors.
InitCli ==
    /\ NoNormalizer
    /\ NoServer
    /\ loaded = <<>>
    /\ prepared = <<>>
    /\ errors \in ErrorLists
    /\ size \in NotifySizes
    /\ cli = [pc |-> "processed", message |-> NoMessage, sent |-> <<>>]

\* start_in_cli_mode after process_sources (lines 85-88): the message is
\* made, and sent when there is one.
StartInCliMode ==
    /\ cli.pc = "processed"
    /\ LET message == get_notify_message(errors, size)
       IN  cli' = [pc |-> IF message.tag = "panic" THEN "panic" ELSE "done",
                   message |-> message,
                   sent |-> IF message.tag = "Some" THEN <<message.text>> ELSE <<>>]
    /\ UNCHANGED <<normalizer, api, loaded, prepared, errors, size>>

NextCli == StartInCliMode

SpecCli == InitCli /\ [][NextCli]_vars

\* ------------------------------------------------------------------------
\* The start: the configuration read is prepared
\* ------------------------------------------------------------------------

\* The most sources a configuration has.
MaxSources == 2

\* An input as it is read: its id is not set.
LoadedInput(input_type, input_url, input_username, input_password, persist) ==
    ConfigInput(input_type, input_url, input_username, input_password)
        @@ [id |-> 0, persist |-> persist]

\* A target as it is read: its id is not set.
LoadedTarget(name, output) == ConfigTarget(name, output) @@ [id |-> 0]

\* The inputs of the model's configuration files.
LoadedXtream == LoadedInput("Xtream", "http://up.example", SomeStr("iu"), SomeStr("ip"), None)

LoadedM3u == LoadedInput("M3u", "http://m3u.example/list", None, None, SomeStr(" "))

LoadedM3uBlankUser == LoadedInput("M3u", "http://m3u.example/list", SomeStr(""), SomeStr("pw"), None)

LoadedM3uBlankUrl == LoadedInput("M3u", " ", None, None, None)

LoadedXtreamBlankPassword ==
    LoadedInput("Xtream", "http://up.example", SomeStr("iu"), SomeStr(" \t"), None)

LoadedXtreamNoUsername ==
    LoadedInput("Xtream", "http://up.example", None, SomeStr("ip"), None)

\* The sources of the model's configuration files.
LoadedSources ==
    { ConfigSource(<<LoadedM3u, LoadedXtream>>,
                   <<LoadedTarget("TV", <<"M3u", "Xtream">>), LoadedTarget("default", <<"M3u">>)>>),
      ConfigSource(<<LoadedXtream>>, <<LoadedTarget("tv", <<"Xtream">>)>>),
      ConfigSource(<<LoadedM3uBlankUser>>,
                   <<LoadedTarget("Default", <<"M3u">>), LoadedTarget("radio", <<"M3u">>)>>),
      ConfigSource(<<LoadedXtream, LoadedXtreamBlankPassword>>,
                   <<LoadedTarget("films", <<"Xtream">>)>>),
      ConfigSource(<<LoadedM3uBlankUrl, LoadedXtreamNoUsername>>,
                   <<LoadedTarget("attic", <<"Xtream">>)>>),
      ConfigSource(<<LoadedM3u>>, <<LoadedTarget("TV", <<"M3u">>)>>),
      ConfigSource(<<LoadedM3u>>,
                   <<LoadedTarget("gone", <<>>), LoadedTarget("default", <<"Xtream">>)>>) }

\* The configurations read.
LoadedConfigs == {[sources |-> sources] : sources \in SeqsUpTo(LoadedSources, MaxSources)}

\* Nothing is prepared yet.
NotPrepared == [of |-> "none", subject |-> <<>>, result |-> NotRun]

\* The configuration has been read.
InitPrepare ==
    /\ NoNormalizer
    /\ NoServer
    /\ loaded \in LoadedConfigs
    /\ prepared = NotPrepared
    /\ errors = <<>>
    /\ size = 0
    /\ cli = <<>>

\* Config::prepare is called on the configuration read.
PrepareConfig ==
    /\ prepared.of = "none"
    /\ prepared' = [of |-> "config", subject |-> loaded, result |-> Config_prepare(loaded)]
    /\ UNCHANGED <<normalizer, api, loaded, errors, size, cli>>

\* ConfigInput::prepare is called on one input of the configuration read.
PrepareInput ==
    /\ prepared.of = "none"
    /\ \E k \in DOMAIN loaded.sources : \E idx \in DOMAIN loaded.sources[k].inputs :
          prepared' = [of |-> "input", subject |-> loaded.sources[k].inputs[idx],
                       result |-> ConfigInput_prepare(loaded.sources[k].inputs[idx], idx)]
    /\ UNCHANGED <<normalizer, api, loaded, errors, size, cli>>

NextPrepare == PrepareConfig \/ PrepareInput

SpecPrepare == InitPrepare /\ [][NextPrepare]_vars

\* ------------------------------------------------------------------------
\* What the claims speak about
\* ------------------------------------------------------------------------

\* The results parse_xtream has returned so far.
Returned == {first_pass, second_pass} \ {NotRun}

\* Both payloads decode.
Decodable ==
    /\ process_category(category).tag = "Ok"
    /\ process_streams(xtream_cluster, streams).tag = "Ok"

\* The decoded records of the two payloads.
CategoryRecords == process_category(category).val

StreamRecords == process_streams(xtream_cluster, streams).val

\* The category ids the category payload holds.
CategoryIds == {CategoryRecords[i].category_id : i \in DOMAIN CategoryRecords}

\* The positions of the stream records sr whose category_id is among ids.
MatchedOf(sr, ids) == {i \in DOMAIN sr : sr[i].category_id \in ids}

\* The positions of the stream records whose category_id is some
\* category's, and of those whose category_id is no category's.
Matched == MatchedOf(StreamRecords, CategoryIds)

Unmatched == DOMAIN StreamRecords \ Matched

\* The items of all groups of a result, and their number.
Items(r) == UNION {{r.val[g].channels[k] : k \in DOMAIN r.val[g].channels} : g \in DOMAIN r.val}

RECURSIVE ItemCountUpTo(_, _)
ItemCountUpTo(r, g) ==
    IF g = 0 THEN 0 ELSE Len(r.val[g].channels) + ItemCountUpTo(r, g - 1)

ItemCount(r) == ItemCountUpTo(r, Len(r.val))

\* ------------------------------------------------------------------------
\* C1
\* ------------------------------------------------------------------------

\* C1: when both payloads decode, parse_xtream returns Ok, and its groups
\* hold one item for each stream record whose category_id is some category's
\* and none for a record whose category_id is no category's: every item has
\* the name of a record with a category, and there are as many items as
\* such records.
C1_UnmatchedStreamsDropped ==
    Decodable =>
        LET sr == StreamRecords
            matched == MatchedOf(sr, CategoryIds)
        IN  \A r \in Returned :
                /\ r.tag = "Ok"
                /\ ItemCount(r) = Cardinality(matched)
                /\ \A item \in Items(r) :
                       \E i \in matched : item.name = sr[i].name

\* A pass has returned groups for payloads in which one stream has a
\* category, another stream has none, and the dropped stream's name is on
\* no item.
C1_Witness ==
    /\ Decodable
    /\ first_pass.tag = "Ok"
    /\ Matched # {}
    /\ \E i \in Unmatched :
          /\ \A j \in Matched : StreamRecords[j].name # StreamRecords[i].name
          /\ \A item \in Items(first_pass) : item.name # StreamRecords[i].name

\* ------------------------------------------------------------------------
\* C2
\* ------------------------------------------------------------------------

\* The category ids no stream record names.
IdsWithoutStreams ==
    LET sr == StreamRecords
    IN  {id \in CategoryIds : \A i \in DOMAIN sr : sr[i].category_id # id}

\* C2 as claimed: as many groups as the category payload has records,
\* records with one category_id included.
C2_OneGroupPerRecord ==
    Decodable =>
        \A r \in Returned : r.tag = "Ok" /\ Len(r.val) = Len(CategoryRecords)

\* The name of the last category record with the given id.
LastNameOf(cr, id) ==
    cr[CHOOSE i \in DOMAIN cr :
           /\ cr[i].category_id = id
           /\ \A j \in DOMAIN cr : j > i => cr[j].category_id # id].category_name

\* C2, amended: as many groups as the category payload has distinct
\* category ids, each id's group titled by the last record of that id, and
\* as many groups with an empty channel list as there are category ids that
\* no stream record names.
C2_OneGroupPerCategoryId ==
    Decodable =>
        LET cr == CategoryRecords
            ids == CategoryIds
            empty == Cardinality(IdsWithoutStreams)
        IN  \A r \in Returned :
                /\ r.tag = "Ok"
                /\ Len(r.val) = Cardinality(ids)
                /\ \A id \in ids :
                       \E g \in DOMAIN r.val : r.val[g].title = LastNameOf(cr, id)
                /\ Cardinality({g \in DOMAIN r.val : r.val[g].channels = <<>>}) = empty

\* A pass has returned a group with an empty channel list for a category
\* payload with two records of one id, while the stream payload holds a
\* stream (of no category).
C2_Witness ==
    /\ Decodable
    /\ first_pass.tag = "Ok"
    /\ Len(CategoryRecords) > Cardinality(CategoryIds)
    /\ StreamRecords # <<>>
    /\ \E g \in DOMAIN first_pass.val : first_pass.val[g].channels = <<>>

\* ------------------------------------------------------------------------
\* C3
\* ------------------------------------------------------------------------

\* C3: in the Video cluster, the item of a stream record with no direct
\* source has the URL {base}/movie/{user}/{pass}/{stream_id}.{ext}, ext being
\* the record's container_extension, or mp4 when it has none.
C3_VideoUrl ==
    (xtream_cluster = "Video" /\ Decodable) =>
        LET sr == StreamRecords
            matched == MatchedOf(sr, CategoryIds)
        IN  \A r \in Returned : \A i \in matched :
                sr[i].direct_source = "" =>
                    \E item \in Items(r) :
                        /\ item.name = sr[i].name
                        /\ item.url = url \o "/movie/" \o username \o "/" \o password
                                          \o "/" \o item.id \o "."
                                          \o (IF sr[i].container_extension.some
                                              THEN sr[i].container_extension.s
                                              ELSE "mp4")

\* ------------------------------------------------------------------------
\* C4
\* ------------------------------------------------------------------------

\* C4: in the Live cluster, the item of a stream record with no direct
\* source has the URL {base}/live/{user}/{pass}/{stream_id}.ts, stream_id
\* being the item's id.
C4_LiveUrl ==
    (xtream_cluster = "Live" /\ Decodable) =>
        LET sr == StreamRecords
            matched == MatchedOf(sr, CategoryIds)
        IN  \A r \in Returned : \A i \in matched :
                sr[i].direct_source = "" =>
                    \E item \in Items(r) :
                        /\ item.name = sr[i].name
                        /\ item.url = url \o "/live/" \o username \o "/" \o password
                                          \o "/" \o item.id \o ".ts"

\* A pass over the Live cluster has returned the item of stream 42 with the
\* URL http://p.example/live/u/p/42.ts.
C4_Witness ==
    /\ xtream_cluster = "Live"
    /\ first_pass.tag = "Ok"
    /\ \E i \in Matched :
          /\ StreamRecords[i].direct_source = ""
          /\ StreamRecords[i].stream_id = SomeNum(42)
    /\ \E item \in Items(first_pass) :
          item.id = "42" /\ item.url = "http://p.example/live/u/p/42.ts"

\* ------------------------------------------------------------------------
\* C5
\* ------------------------------------------------------------------------

\* C5: in the Series cluster, the item of a stream record with no direct
\* source has the URL {base}/player_api.php?username={user}&password={pass}
\* &action=get_series_info&series_id={id}, id being the item's id.
C5_SeriesUrl ==
    (xtream_cluster = "Series" /\ Decodable) =>
        LET sr == StreamRecords
            matched == MatchedOf(sr, CategoryIds)
        IN  \A r \in Returned : \A i \in matched :
                sr[i].direct_source = "" =>
                    \E item \in Items(r) :
                        /\ item.name = sr[i].name
                        /\ item.url = url \o "/player_api.php?username=" \o username
                                          \o "&password=" \o password
                                          \o "&action=get_series_info&series_id="
                                          \o item.id

\* A pass over the Series cluster has returned the item of a record with a
\* stream_id and another series_id, with the deep link of its id.
C5_Witness ==
    /\ xtream_cluster = "Series"
    /\ first_pass.tag = "Ok"
    /\ \E i \in Matched :
          /\ StreamRecords[i].direct_source = ""
          /\ StreamRecords[i].stream_id = SomeNum(6)
          /\ StreamRecords[i].series_id = SomeNum(7)
    /\ \E item \in Items(first_pass) :
          item.url = "http://p.example/player_api.php?username=u&password=p&action=get_series_info&series_id=6"

\* ------------------------------------------------------------------------
\* C6
\* ------------------------------------------------------------------------

\* C6: in every cluster, the item of a stream record with a non-empty
\* direct source has exactly that direct source as its URL.
C6_DirectSourceVerbatim ==
    Decodable =>
        LET sr == StreamRecords
            matched == MatchedOf(sr, CategoryIds)
        IN  \A r \in Returned : \A i \in matched :
                sr[i].direct_source # "" =>
                    \E item \in Items(r) :
                        /\ item.name = sr[i].name
                        /\ item.url = sr[i].direct_source

\* A pass over the Series cluster has returned the item of a record with a
\* direct source, next to an item with a synthesized URL.
C6_Witness ==
    /\ xtream_cluster = "Series"
    /\ first_pass.tag = "Ok"
    /\ \E i \in Matched : StreamRecords[i].direct_source = "http://cdn.example/c"
    /\ \E item \in Items(first_pass) : item.url = "http://cdn.example/c"
    /\ \E item \in Items(first_pass) : item.url # "http://cdn.example/c"

\* ------------------------------------------------------------------------
\* C7
\* ------------------------------------------------------------------------

\* The id the claim gives a stream record.
ClaimedId(stream) ==
    IF stream.stream_id.some THEN ToString(stream.stream_id.n)
    ELSE IF stream.series_id.some THEN ToString(stream.series_id.n)
    ELSE ""

\* The URLs that carry the id between a route's prefix and an extension.
UrlsOfId(id, stream) ==
    {prefix \o id \o suffix :
        prefix \in {url \o "/live/" \o username \o "/" \o password \o "/",
                    url \o "/movie/" \o username \o "/" \o password \o "/",
                    url \o "/player_api.php?username=" \o username
                        \o "&password=" \o password
                        \o "&action=get_series_info&series_id="},
        suffix \in {"", ".ts", ".mp4"} \cup
                   {"." \o stream.container_extension.s}}

\* C7: the item of a stream record has the record's stream_id as its id,
\* else its series_id, else the empty string; and when the URL is
\* synthesized, it carries the same id.
C7_StreamIdResolution ==
    Decodable =>
        LET sr == StreamRecords
            matched == MatchedOf(sr, CategoryIds)
        IN  \A r \in Returned : \A i \in matched :
                \E item \in Items(r) :
                    /\ item.name = sr[i].name
                    /\ item.id = ClaimedId(sr[i])
                    /\ sr[i].direct_source = "" =>
                           item.url \in UrlsOfId(item.id, sr[i])

\* A pass has returned an item with the empty id (no stream_id, no
\* series_id) and the item of a record with both ids, under its stream_id.
C7_Witness ==
    /\ first_pass.tag = "Ok"
    /\ \E i \in Matched :
          ~StreamRecords[i].stream_id.some /\ ~StreamRecords[i].series_id.some
    /\ \E i \in Matched :
          StreamRecords[i].stream_id = SomeNum(6) /\ StreamRecords[i].series_id = SomeNum(7)
    /\ \E item \in Items(first_pass) : item.id = ""
    /\ \E item \in Items(first_pass) : item.id = "6"

\* ------------------------------------------------------------------------
\* C8
\* ------------------------------------------------------------------------

\* C8: every item of a returned group carries the group's cluster tag, and
\* its group field is the group's title.
C8_ItemsCarryGroupTag ==
    \A r \in Returned : \A g \in DOMAIN r.val :
        \A k \in DOMAIN r.val[g].channels :
            /\ r.val[g].channels[k].xtream_cluster = r.val[g].xtream_cluster
            /\ r.val[g].channels[k].group = r.val[g].title

\* A pass over the Video cluster has returned two groups with an item each.
C8_Witness ==
    /\ xtream_cluster = "Video"
    /\ first_pass.tag = "Ok"
    /\ Len(first_pass.val) = 2
    /\ \A g \in DOMAIN first_pass.val : first_pass.val[g].channels # <<>>

\* ------------------------------------------------------------------------
\* C9
\* ------------------------------------------------------------------------

\* The strictly increasing maps from the positions of a list of n items to
\* the positions of a stream payload of m records.
Embeddings(n, m) ==
    {f \in [1..n -> 1..m] : \A a, b \in 1..n : a < b => f[a] < f[b]}

\* C9: the items of a group are in the order of their stream records in the
\* stream payload: the group's item list maps, position by position and in
\* increasing order, to records of the payload with the item's name and id.
C9_UpstreamOrderKept ==
    Decodable =>
        LET sr == StreamRecords
        IN  \A r \in Returned : \A g \in DOMAIN r.val :
                \E f \in Embeddings(Len(r.val[g].channels), Len(sr)) :
                    \A k \in DOMAIN r.val[g].channels :
                        /\ r.val[g].channels[k].name = sr[f[k]].name
                        /\ r.val[g].channels[k].id = ClaimedId(sr[f[k]])

\* A pass has returned a group with two different items.
C9_Witness ==
    /\ first_pass.tag = "Ok"
    /\ \E g \in DOMAIN first_pass.val :
          /\ Len(first_pass.val[g].channels) = 2
          /\ first_pass.val[g].channels[1].name # first_pass.val[g].channels[2].name

\* ------------------------------------------------------------------------
\* C10
\* ------------------------------------------------------------------------

\* A group without its id.
Content(group) ==
    [title |-> group.title, xtream_cluster |-> group.xtream_cluster,
     channels |-> group.channels]

\* How often each content occurs among the groups of a result.
ContentBag(r) ==
    [c \in {Content(r.val[g]) : g \in DOMAIN r.val} |->
        Cardinality({g \in DOMAIN r.val : Content(r.val[g]) = c})]

\* C10: two passes over the same payloads, cluster and connection
\* parameters return the same groups but for their ids: both fail or both
\* succeed, and each title with its item sequence occurs as often in the
\* one result as in the other.
C10_SameGroupsButIds ==
    pc = "twice" =>
        /\ first_pass.tag = second_pass.tag
        /\ first_pass.tag = "Ok" => ContentBag(first_pass) = ContentBag(second_pass)

\* Two passes, each on a fresh counter, have returned two groups with
\* different contents, and the same content under different ids.
C10_Witness ==
    /\ pc = "twice"
    /\ second_cnt = 0
    /\ first_pass.tag = "Ok"
    /\ Len(first_pass.val) = 2
    /\ Content(first_pass.val[1]) # Content(first_pass.val[2])
    /\ Content(first_pass.val[1]) = Content(second_pass.val[2])
    /\ first_pass.val[1].id # second_pass.val[2].id

\* ------------------------------------------------------------------------
\* C11
\* ------------------------------------------------------------------------

\* A payload that is no array, or an array one of whose objects serde
\* cannot decode.
Undecodable(payload, decoded) ==
    payload.t # "arr" \/ \E i \in DOMAIN payload.a : ~decoded[payload.a[i]].ok

\* C11: when the category payload or the stream payload does not decode,
\* every call of parse_xtream returns an error of kind Notify that carries
\* no group, and leaves the counter at the value the call started from.
C11_DecodeFailureIsNotify ==
    Undecodable(category, decoded_category) \/ Undecodable(streams, decoded_stream) =>
        /\ \A r \in Returned : r.tag = "Err" /\ r.kind = "Notify" /\ r.val = <<>>
        /\ pc = "once" => cat_id_cnt = first_cnt
        /\ pc = "twice" => cat_id_cnt = second_cnt

\* Two passes on a counter standing at 3 have failed on a stream payload
\* whose first object decodes and matches a category and whose second
\* object does not decode.
C11_Witness ==
    /\ pc = "twice"
    /\ first_cnt = 3
    /\ second_cnt = 3
    /\ process_category(category).tag = "Ok"
    /\ category.a # <<>>
    /\ Len(streams.a) = 2
    /\ streams.a[1] \in StreamObjects
    /\ decoded_stream[streams.a[1]].category_id \in CategoryIds
    /\ streams.a[2] = MalformedStreamObject
    /\ first_pass.tag = "Err"
    /\ second_pass.tag = "Err"

\* ------------------------------------------------------------------------
\* C13
\* ------------------------------------------------------------------------

\* The ids of the groups of a result.
GroupIds(r) == {r.val[g].id : g \in DOMAIN r.val}

\* The groups of result r have the ids c+1 .. c+n in the order they were
\* emitted in, n being their number.
IdsFollow(r, c) == \A g \in DOMAIN r.val : r.val[g].id = c + g

\* C13: a pass that runs alone, starts at counter value c and emits n groups
\* gives them the ids c+1 .. c+n in emission order and leaves the counter at
\* c+n; a pass that follows it on the same counter gets ids the earlier
\* pass did not give.
C13_SequentialIds ==
    /\ first_pass.tag = "Ok" =>
          /\ IdsFollow(first_pass, first_cnt)
          /\ pc = "once" => cat_id_cnt = first_cnt + Len(first_pass.val)
    /\ second_pass.tag = "Ok" =>
          /\ IdsFollow(second_pass, second_cnt)
          /\ cat_id_cnt = second_cnt + Len(second_pass.val)
          /\ second_cnt = first_cnt + Len(first_pass.val) =>
                GroupIds(first_pass) \cap GroupIds(second_pass) = {}

\* A pass started at 3 and emitted two groups, and a second pass on the same
\* counter started at 5 and emitted two groups.
C13_Witness ==
    /\ pc = "twice"
    /\ first_cnt = 3
    /\ first_pass.tag = "Ok"
    /\ Len(first_pass.val) = 2
    /\ second_cnt = 5
    /\ Len(second_pass.val) = 2
    /\ cat_id_cnt = 7

\* ------------------------------------------------------------------------
\* C12
\* ------------------------------------------------------------------------

\* The number of groups the passes 1 .. p have emitted.
RECURSIVE EmittedUpTo(_)
EmittedUpTo(p) == IF p = 0 THEN 0 ELSE Len(emitted[p]) + EmittedUpTo(p - 1)

\* The number of passes among 1 .. p that have incremented the counter
\* for a group they have not built yet.
RECURSIVE PendingUpTo(_)
PendingUpTo(p) ==
    IF p = 0 THEN 0
    ELSE (IF emit_pc[p] = "load" THEN 1 ELSE 0) + PendingUpTo(p - 1)

\* Every pass has visited all entries of its map.
AllEmitted == \A p \in Passes : to_emit[p] = 0

\* C12: with several passes in parallel on one counter no increment is
\* lost: the counter has advanced by one for every group emitted and for
\* every group whose increment is done and whose id is not read yet, so when
\* the passes have emitted N groups in total it has advanced by exactly N.
C12_NoIncrementLost ==
    /\ cat_id_cnt = first_cnt + EmittedUpTo(MaxPasses) + PendingUpTo(MaxPasses)
    /\ AllEmitted => cat_id_cnt = first_cnt + EmittedUpTo(MaxPasses)

\* Two passes have run interleaved on a counter that stood at 3: each has
\* emitted two groups, each read an id the other's increment produced, and
\* the counter stands at 7.
C12_Witness ==
    /\ AllEmitted
    /\ first_cnt = 3
    /\ Len(emitted[1]) = 2
    /\ Len(emitted[2]) = 2
    /\ emitted[1][1] = 5
    /\ emitted[2][1] = 5
    /\ cat_id_cnt = 7

\* ------------------------------------------------------------------------
\* C14
\* ------------------------------------------------------------------------

\* A request of the Player API has been handled and is still in the state.
ApiHandled == response.body.kind # "idle"

\* The credentials of the request in the state resolve to a user and a
\* target.
Resolved == get_user_target(api_req, config).some

\* C14: a Player API request whose credentials or token resolve to no user
\* and target is answered 401 when its action parameter is empty and 400
\* when it names an action, and with no other status whatever the action
\* parameter holds.
C14_UnresolvedStatus ==
    ApiHandled /\ ~Resolved =>
        /\ response.status \in {400, 401}
        /\ response.body.kind = "empty"
        /\ is_empty(api_req.action) => response.status = 401
        /\ ~is_empty(trim(api_req.action)) => response.status = 400

\* A request with a wrong password and without action has been answered 401.
C14_Witness ==
    /\ ApiHandled
    /\ ~Resolved
    /\ config.api_proxy.some
    /\ api_req.username = "alice"
    /\ api_req.password = "pw-x"
    /\ api_req.action = <<>>
    /\ response.status = 401

\* ------------------------------------------------------------------------
\* C15
\* ------------------------------------------------------------------------

\* The target the user of this name is configured for, if the server knows
\* the user and has the target.
TargetOfUsername(cfg, name) ==
    IF ~cfg.api_proxy.some THEN [some |-> FALSE, v |-> <<>>]
    ELSE LET users == SelectSeq(cfg.api_proxy.v.user, LAMBDA u : u.username = name)
         IN  IF users = <<>> THEN [some |-> FALSE, v |-> <<>>]
             ELSE get_target_for_user_named(cfg,
                      [some |-> TRUE, v |-> [user |-> users[1], target |-> users[1].target]])

\* The request in the state names a user whose target declares no Xtream
\* output.
NamesTargetWithoutXtream ==
    LET named == TargetOfUsername(config, api_req.username)
    IN  /\ named.some
        /\ \A i \in DOMAIN named.v.target.output : named.v.target.output[i] # "Xtream"

\* C15 as stated: a request for a target without Xtream output is answered
\* 400 whatever its action, whether its credentials are valid or not.
C15_BadRequestWhateverCredentials ==
    ApiHandled /\ NamesTargetWithoutXtream => response.status = 400

\* C15: a request whose credentials resolve to a target without Xtream
\* output is answered 400 whatever its action, the empty one included; and
\* whether the credentials of a user of such a target are valid or not, the
\* answer carries no authorization payload and no repository content, and
\* the repository is not looked at.
C15_NoXtreamOutputBadRequest ==
    ApiHandled /\ NamesTargetWithoutXtream =>
        /\ Resolved => response.status = 400
        /\ response.status \in {400, 401}
        /\ response.body.kind = "empty"
        /\ lookups = <<>>

\* The user of a target with m3u output only has asked, with the right
\* password, for the collection the repository holds in memory, and has been
\* answered 400.
C15_Witness ==
    /\ ApiHandled
    /\ api_req.username = "bob"
    /\ api_req.password = "pw-b"
    /\ Resolved
    /\ \E c \in DOMAIN Collections :
          /\ collection_of(trim(api_req.action)) = SomeStr(Collections[c])
          /\ repository.all["radio"][Collections[c]] = "inline"
    /\ response.status = 400

\* ------------------------------------------------------------------------
\* C16
\* ------------------------------------------------------------------------

\* The user and the target the request in the state resolves to.
ResolvedUser == get_user_target(api_req, config).v.user

ResolvedTarget == get_user_target(api_req, config).v.target

\* The target declares Xtream output.
DeclaresXtream(target) == \E i \in DOMAIN target.output : target.output[i] = "Xtream"

\* C16: a request without action whose credentials resolve to a target
\* with Xtream output is answered 200 with the authorization payload: auth
\* is 1, max_connections is "1", username and password are those of the
\* user the credentials resolved to; the repository is not looked at.
C16_LoginProbe ==
    ApiHandled /\ Resolved /\ DeclaresXtream(ResolvedTarget) /\ is_empty(trim(api_req.action)) =>
        /\ response.status = 200
        /\ response.content_type = "application/json"
        /\ response.body.kind = "json"
        /\ response.body.json.user_info.auth = 1
        /\ response.body.json.user_info.max_connections = "1"
        /\ response.body.json.user_info.username = ResolvedUser.username
        /\ response.body.json.user_info.password = ResolvedUser.password
        /\ lookups = <<>>

\* A request with a user's name and password and without action has been
\* answered with the payload of that user.
C16_Witness ==
    /\ ApiHandled
    /\ api_req.username = "alice"
    /\ api_req.password = "pw-a"
    /\ api_req.action = <<>>
    /\ Resolved
    /\ ResolvedTarget.name = "TV"
    /\ response.status = 200
    /\ response.body.json.user_info.username = "alice"
    /\ response.body.json.user_info.password = "pw-a"

\* ------------------------------------------------------------------------
\* C17
\* ------------------------------------------------------------------------

\* The integer each id parameter of the model stands for, -1 for a text
\* that is no integer.
IdValue ==
    [t \in IdTexts |->
        CASE t = <<"7">> -> 7
          [] t = <<" ", "42", " ">> -> 42
          [] t = <<"9">> -> 9
          [] OTHER -> -1]

\* The request in the state is a get_series_info or get_vod_info for a
\* resolved target with Xtream output.
InfoRequest ==
    /\ ApiHandled
    /\ Resolved
    /\ DeclaresXtream(ResolvedTarget)
    /\ trim(api_req.action) \in {<<"get_series_info">>, <<"get_vod_info">>}

\* C17: get_series_info and get_vod_info for a resolved target with Xtream
\* output are answered 400 without any repository lookup when the id
\* parameter of the action is no integer, 204 when it is an integer the
\* repository has no detail for, and 200 with the cached JSON of that target
\* and id otherwise; the one lookup made is for the parsed id.
C17_InfoActions ==
    InfoRequest =>
        LET series == trim(api_req.action) = <<"get_series_info">>
            id == IdValue[IF series THEN api_req.series_id ELSE api_req.vod_id]
            fn == IF series THEN "xtream_get_series_info" ELSE "xtream_get_vod_info"
            cache == IF series THEN repository.series_info ELSE repository.vod_info
            name == ResolvedTarget.name
        IN  IF id = -1
            THEN response.status = 400 /\ response.body.kind = "empty" /\ lookups = <<>>
            ELSE /\ lookups = <<Lookup(fn, name, id)>>
                 /\ IF name \in DOMAIN cache /\ id \in cache[name]
                    THEN /\ response.status = 200
                         /\ response.content_type = "application/json"
                         /\ response.body.kind = "text"
                         /\ response.body.text =
                                (IF series THEN "{series:" ELSE "{vod:") \o name \o ":"
                                \o ToString(id) \o "}"
                    ELSE response.status = 204 /\ response.body.kind = "empty"

\* get_series_info has been answered with the cached detail of series 7,
\* while the vod_id of the request is no integer.
C17_Witness ==
    /\ InfoRequest
    /\ api_req.action = <<"get_series_info">>
    /\ api_req.series_id = <<"7">>
    /\ api_req.vod_id = <<"abc">>
    /\ response.status = 200
    /\ response.body.text = "{series:TV:7}"

\* ------------------------------------------------------------------------
\* C18
\* ------------------------------------------------------------------------

\* The six collection actions and the collection kind of each.
KindOfAction ==
    [a \in {"get_live_categories", "get_vod_categories", "get_series_categories",
             "get_live_streams", "get_vod_streams", "get_series"} |->
        CASE a = "get_live_categories" -> "cat_live"
          [] a = "get_vod_categories" -> "cat_vod"
          [] a = "get_series_categories" -> "cat_series"
          [] a = "get_live_streams" -> "live"
          [] a = "get_vod_streams" -> "vod"
          [] OTHER -> "series"]

\* The request in the state names an action other than get_series_info and
\* get_vod_info, for a resolved target with Xtream output.
OtherActionRequest ==
    /\ ApiHandled
    /\ Resolved
    /\ DeclaresXtream(ResolvedTarget)
    /\ ~is_empty(trim(api_req.action))
    /\ trim(api_req.action) \notin {<<"get_series_info">>, <<"get_vod_info">>}

\* C18: for a resolved target with Xtream output each of the six
\* collection actions makes one repository lookup, for its own collection
\* kind, and is answered with the file when the repository gives a path, 200
\* with the payload when it gives one, 204 when it gives neither or fails;
\* any other action is answered 204 without a lookup.
C18_CollectionActions ==
    OtherActionRequest =>
        LET action == trim(api_req.action)
            name == ResolvedTarget.name
        IN  IF Len(action) = 1 /\ action[1] \in DOMAIN KindOfAction
            THEN LET kind == KindOfAction[action[1]]
                     held == IF name \in DOMAIN repository.all
                             THEN repository.all[name][kind] ELSE "error"
                 IN  /\ lookups = <<Lookup("xtream_get_all", name, kind)>>
                     /\ held = "file" =>
                           /\ response.body.kind = "file"
                           /\ response.body.path = name \o "/" \o kind \o ".json"
                     /\ held = "inline" =>
                           /\ response.status = 200
                           /\ response.body.kind = "text"
                           /\ response.body.text = "[" \o name \o ":" \o kind \o "]"
                     /\ held \in {"neither", "error"} =>
                           response.status = 204 /\ response.body.kind = "empty"
            ELSE response.status = 204 /\ response.body.kind = "empty" /\ lookups = <<>>

\* get_vod_streams has been answered with the payload the repository holds
\* in memory for the vod collection of the target, while it holds the live
\* collection in another way.
C18_Witness ==
    /\ OtherActionRequest
    /\ api_req.action = <<"get_vod_streams">>
    /\ ResolvedTarget.name = "TV"
    /\ repository.all["TV"]["vod"] = "inline"
    /\ response.status = 200
    /\ response.body.text = "[TV:vod]"

\* ------------------------------------------------------------------------
\* C19
\* ------------------------------------------------------------------------

\* C19: no step in which a Player API request is handled, and no step
\* between two such requests, changes the configuration of targets, inputs
\* and users, the contents of the repository, or the data of the
\* normalizer, whatever the request and its answer are.
C19_ReadOnly == [][UNCHANGED <<config, repository, normalizer>>]_vars

\* A request has been answered 204 after a lookup of a series detail the
\* repository has not cached, and the server runs with a configuration and a
\* repository it may have started with.
C19_Witness ==
    /\ ApiHandled
    /\ config \in Configs
    /\ repository \in Repositories
    /\ lookups # <<>>
    /\ lookups[1].fn = "xtream_get_series_info"
    /\ lookups[1].key = 9
    /\ response.status = 204

\* ------------------------------------------------------------------------
\* C20
\* ------------------------------------------------------------------------

\* A relay request is in the state: it has been answered, or the handler
\* has panicked, or it awaits the provider.
RelayHandled == response.body.kind # "idle"

\* What the credentials of the relay request in the state resolve to.
RelayResolved ==
    get_user_target_by_credentials(api_req.username, api_req.password, api_req, config)

\* The first xtream input of the first source that has a target of this
\* name, as a sequence of at most one input.
XtreamInputOf(name) ==
    LET with_target == SelectSeq(config.sources,
                           LAMBDA src : /\ \E i \in DOMAIN src.targets : src.targets[i].name = name
                                        /\ \E i \in DOMAIN src.inputs :
                                              src.inputs[i].input_type = "Xtream")
    IN  IF with_target = <<>> THEN <<>>
        ELSE <<SelectSeq(with_target[1].inputs, LAMBDA input : input.input_type = "Xtream")[1]>>

\* The cases of C20: nothing resolves, or the target has no Xtream output,
\* or no xtream input, or an xtream input without username or password.
RelayRefused ==
    \/ ~RelayResolved.some
    \/ ~DeclaresXtream(RelayResolved.v.target)
    \/ XtreamInputOf(RelayResolved.v.target.name) = <<>>
    \/ ~XtreamInputOf(RelayResolved.v.target.name)[1].username.some
    \/ ~XtreamInputOf(RelayResolved.v.target.name)[1].password.some

RelayInput == XtreamInputOf(RelayResolved.v.target.name)[1]

\* {url}/{kind}/{user}/{pass}/{stream_id} of the relay request in the state.
RelayUrl(input_url, user, pass) ==
    input_url \o "/" \o api_req.route \o "/" \o user \o "/" \o pass
              \o "/" \o api_req.stream_id

\* C21: the URL requested from the provider for a relay request is
\* {input_url}/{kind}/{input_user}/{input_pass}/{stream_id}, with the kind of
\* the route and the credentials stored with the input, and it is not the
\* URL with the caller's username and password.
C21_UpstreamUrl ==
    upstream # <<>> =>
        /\ upstream[1] = RelayUrl(RelayInput.url, RelayInput.username.s,
                                  RelayInput.password.s)
        /\ upstream[1] # RelayUrl(RelayInput.url, api_req.username, api_req.password)

\* ------------------------------------------------------------------------
\* C22
\* ------------------------------------------------------------------------

\* What client.send().await gave is a response with a success status.
UpstreamSuccess(sent) == sent.ok /\ sent.status \in 200..299

\* C22: for one relay request at most one request goes to the provider and
\* at most one answer is awaited; once the provider has answered or the
\* request to it has failed, the caller gets the 200 streamed response if
\* the answer has a success status and 400 Bad Request in every other case.
C22_OneUpstreamRequest ==
    /\ Len(upstream) <= 1
    /\ Len(relay.answers) <= 1
    /\ relay.answers # <<>> =>
          IF UpstreamSuccess(relay.answers[1])
          THEN response.status = 200 /\ response.body.kind = "stream"
          ELSE response = Finish(400)

\* The provider answered 404 to the one request, and the caller gets 400.
C22_Witness ==
    /\ Len(upstream) = 1
    /\ relay.answers # <<>>
    /\ relay.answers[1].ok
    /\ relay.answers[1].status = 404
    /\ response.status = 400

\* ------------------------------------------------------------------------
\* C23
\* ------------------------------------------------------------------------

\* The request to the provider is in flight or the connection to it is open.
UpstreamOpen == relay.up \in {"requested", "open"}

\* C23: once the caller of a relay is gone, the request to the provider or
\* the connection to it is eventually no longer open.
C23_UpstreamTerminated == (relay.down = "gone") ~> ~UpstreamOpen

\* ------------------------------------------------------------------------
\* C24
\* ------------------------------------------------------------------------

\* The optional fields of a stream record that additional properties are
\* made of: texts, numbers, and the list of backdrop paths.
TextFields ==
    {"added", "cast", "container_extension", "cover", "director",
     "episode_run_time", "genre", "last_modified", "plot", "release_date",
     "stream_type", "title", "year", "youtube_trailer"}

NumberFields == {"rating", "rating_5based", "tv_archive", "tv_archive_duration"}

AdditionalFields == {"backdrop_path"} \cup TextFields \cup NumberFields

\* The positions of the pairs of a name in additional properties.
PairsNamed(props, name) == {k \in DOMAIN props.v : props.v[k][1] = name}

\* A value is null or empty.
NullOrEmpty(value) ==
    \/ value.t = "null"
    \/ value.t = "str" /\ value.s = ""
    \/ value.t = "arr" /\ value.n = 0

\* Additional properties as stated: one pair for every optional field the
\* record has and none for any other, no null or empty value, and no list
\* when the record has none of the fields.
PropertiesAsStated(stream, props) ==
    /\ \A f \in AdditionalFields :
          Cardinality(PairsNamed(props, f)) = IF stream[f].some THEN 1 ELSE 0
    /\ \A k \in DOMAIN props.v :
          props.v[k][1] \in AdditionalFields /\ ~NullOrEmpty(props.v[k][2])
    /\ props.some <=> \E f \in AdditionalFields : stream[f].some

\* The record has a value for the field: the field is Some, and a list of
\* backdrop paths has an element.
HasValue(stream, f) ==
    stream[f].some /\ (f = "backdrop_path" => stream[f].n > 0)

\* The value of a field as a JSON value: the text, the number, or the list
\* of the first backdrop path.
ValueOf(stream, f) ==
    CASE f \in TextFields -> JStr(stream[f].s)
      [] f \in NumberFields -> JNum(stream[f].n)
      [] OTHER -> JArr(1, stream[f].s)

\* Additional properties of the fields that have a value: one pair for
\* each, carrying the value, which is never null and is empty only as the
\* text of a field that holds the empty text; and no list without a pair.
PropertiesOfValues(stream, props) ==
    /\ \A f \in AdditionalFields :
          Cardinality(PairsNamed(props, f)) = IF HasValue(stream, f) THEN 1 ELSE 0
    /\ \A k \in DOMAIN props.v :
          /\ props.v[k][1] \in AdditionalFields
          /\ props.v[k][2] = ValueOf(stream, props.v[k][1])
          /\ props.v[k][2].t # "null"
          /\ NullOrEmpty(props.v[k][2]) => stream[props.v[k][1]] = SomeStr("")
    /\ props.some <=> \E f \in AdditionalFields : HasValue(stream, f)

\* C24 as stated: the item of every stream record of a known category has
\* one pair for each optional field present in the record and none for an
\* absent one, no pair has a null or empty value, and an item of a record
\* without optional fields has no list.
C24_PairPerPresentField ==
    Decodable =>
        \A r \in Returned : \A i \in Matched :
            \E item \in Items(r) :
                /\ item.name = StreamRecords[i].name
                /\ PropertiesAsStated(StreamRecords[i], item.additional_properties)

\* C24: the item of every stream record of a known category has one pair
\* for each optional field that has a value in the record, carrying that
\* value, and none for any other field; no value is null; and an item of a
\* record without such a field has no list.
C24_PairPerFieldWithValue ==
    Decodable =>
        \A r \in Returned : \A i \in Matched :
            \E item \in Items(r) :
                /\ item.name = StreamRecords[i].name
                /\ PropertiesOfValues(StreamRecords[i], item.additional_properties)

\* A pass has returned the item of record b with its three pairs, and the
\* item of record a without a list.
C24_Witness ==
    /\ first_pass.tag = "Ok"
    /\ \E item \in Items(first_pass) :
          /\ item.name = "b"
          /\ item.additional_properties.some
          /\ item.additional_properties.v =
                << <<"backdrop_path", JArr(1, "b.jpg")>>,
                   <<"container_extension", JStr("mkv")>>,
                   <<"rating", JNum(8)>> >>
    /\ \E item \in Items(first_pass) :
          item.name = "a" /\ ~item.additional_properties.some

\* ------------------------------------------------------------------------
\* C25
\* ------------------------------------------------------------------------

\* C25: with several passes in parallel on one counter, no two groups
\* emitted, by one pass or by two, have the same id.
C25_ConcurrentIdsUnique ==
    \A p, q \in Passes :
        \A i \in DOMAIN emitted[p] : \A j \in DOMAIN emitted[q] :
            (p # q \/ i # j) => emitted[p][i] # emitted[q][j]

\* ------------------------------------------------------------------------
\* C26
\* ------------------------------------------------------------------------

\* The action parameter of the request in the state holds nothing but
\* whitespace, or nothing at all.
BlankAction == is_empty(trim(api_req.action))

\* C26: a request whose action parameter holds at most whitespace is
\* answered as a login probe whether its credentials resolve or not: with
\* the authorization payload when they resolve to a target with Xtream
\* output, with 401 when they resolve to nothing.
C26_BlankActionIsProbe ==
    ApiHandled /\ BlankAction =>
        /\ Resolved /\ DeclaresXtream(ResolvedTarget) =>
              response.status = 200 /\ response.body.kind = "json"
        /\ ~Resolved => response.status = 401

\* ------------------------------------------------------------------------
\* C27
\* ------------------------------------------------------------------------

\* start_in_cli_mode has made the message, or has panicked making it.
CliReported == cli.pc # "processed"

\* The messages of the errors of kind Notify, in the order of the list.
RECURSIVE NotifyTexts(_)
NotifyTexts(errs) ==
    IF errs = <<>> THEN <<>>
    ELSE (IF Head(errs).kind = "Notify" THEN <<Head(errs).message>> ELSE <<>>)
         \o NotifyTexts(Tail(errs))

\* The texts one after the other, a newline between two of them.
RECURSIVE Lines(_)
Lines(texts) ==
    IF texts = <<>> THEN <<>>
    ELSE Head(texts) \o (IF Len(texts) > 1 THEN <<"\n">> ELSE <<>>) \o Lines(Tail(texts))

\* C27: a list without an error of kind Notify (empty, or of Info errors
\* only) yields no message and nothing is sent; a list with errors of kind
\* Notify yields, when no size limit shortens it, the message that holds
\* their texts in the order of the list, joined by newlines, and that
\* message is sent.
C27_OnlyNotifyErrorsReported ==
    CliReported =>
        /\ NotifyTexts(errors) = <<>> =>
              cli.message = NoMessage /\ cli.sent = <<>>
        /\ NotifyTexts(errors) # <<>> /\ size = 0 =>
              /\ cli.message = SomeMessage(Lines(NotifyTexts(errors)))
              /\ cli.sent = <<Lines(NotifyTexts(errors))>>

\* ------------------------------------------------------------------------
\* C28
\* ------------------------------------------------------------------------

\* The text ends with "...".
EndsWithDots(text) ==
    Len(text) >= 3 /\ SubSeq(text, Len(text) - 2, Len(text)) = <<".", ".", ".">>

\* C28: for a list of errors that is not empty and a size limit above 0 the
\* message is made without a panic, it is no longer than the limit, and a
\* message that is not the whole text ends with "...".
C28_MessageWithinLimit ==
    CliReported /\ errors # <<>> /\ size > 0 =>
        /\ cli.message.tag = "Some"
        /\ Len(cli.message.text) <= size
        /\ cli.message.text # Lines(NotifyTexts(errors)) => EndsWithDots(cli.message.text)

\* ------------------------------------------------------------------------
\* C29
\* ------------------------------------------------------------------------

\* Config::prepare has succeeded.
ConfigPrepared == prepared.of = "config" /\ prepared.result.tag = "Ok"

\* The targets and the inputs of the prepared configuration, in
\* configuration order.
PreparedTargets ==
    targets_up_to(prepared.result.val.sources, Len(prepared.result.val.sources))

RECURSIVE inputs_up_to(_, _)
inputs_up_to(sources, k) ==
    IF k = 0 THEN <<>> ELSE inputs_up_to(sources, k - 1) \o sources[k].inputs

PreparedInputs ==
    inputs_up_to(prepared.result.val.sources, Len(prepared.result.val.sources))

\* The name is "default" as the resolver compares names.
IsDefaultName(name) == to_ascii_lowercase[name] = "default"

\* C29: after a successful Config::prepare no two targets other than
\* "default" have names that are equal but for ASCII case, so that a name
\* matches at most one target; the ids of the targets are 1, 2, 3, ... in
\* configuration order; and no two inputs have the same id.
C29_ResolutionUnambiguous ==
    ConfigPrepared =>
        /\ \A i, j \in DOMAIN PreparedTargets :
              /\ i # j
              /\ ~IsDefaultName(PreparedTargets[i].name)
              /\ ~IsDefaultName(PreparedTargets[j].name)
              => to_ascii_lowercase[PreparedTargets[i].name]
                    # to_ascii_lowercase[PreparedTargets[j].name]
        /\ \A i \in DOMAIN PreparedTargets : PreparedTargets[i].id = i
        /\ \A i, j \in DOMAIN PreparedInputs :
              i # j => PreparedInputs[i].id # PreparedInputs[j].id

\* ------------------------------------------------------------------------
\* C30
\* ------------------------------------------------------------------------

\* The text is empty or whitespace.
BlankText(text) == text \in {"", " ", " \t"}

\* The username or password is not given, or is blank.
Missing(option) == ~option.some \/ BlankText(option.s)

\* C30: ConfigInput::prepare returns an error of kind Info for an input
\* whose url is blank and for an xtream input whose username or password
\* is missing or blank; it accepts every other input, an m3u input without
\* username and password too; an accepted input has no blank username or
\* password, and an accepted xtream input has both.  So has every xtream
\* input of a configuration that Config::prepare accepted.
C30_InputsValidated ==
    /\ prepared.of = "input" =>
          LET input == prepared.subject
              result == prepared.result
              rejected == \/ BlankText(input.url)
                          \/ /\ input.input_type = "Xtream"
                             /\ (Missing(input.username) \/ Missing(input.password))
          IN  /\ rejected => result.tag = "Err" /\ result.kind = "Info"
              /\ ~rejected =>
                    /\ result.tag = "Ok"
                    /\ result.val.username =
                          IF Missing(input.username) THEN None ELSE input.username
                    /\ result.val.password =
                          IF Missing(input.password) THEN None ELSE input.password
                    /\ input.input_type = "Xtream" =>
                          ~Missing(result.val.username) /\ ~Missing(result.val.password)
    /\ ConfigPrepared =>
          \A i \in DOMAIN PreparedInputs :
              PreparedInputs[i].input_type = "Xtream" =>
                  ~Missing(PreparedInputs[i].username) /\ ~Missing(PreparedInputs[i].password)

\* An xtream input with a blank password has been rejected with an error
\* of kind Info.
C30_Witness ==
    /\ prepared.of = "input"
    /\ prepared.subject.input_type = "Xtream"
    /\ prepared.subject.password = SomeStr(" \t")
    /\ prepared.result.tag = "Err"
    /\ prepared.result.kind = "Info"

====
